---- MODULE Spec2Model ----
(***************************************************************************)
(* State-machine model of the sentiment evolution tracker:                 *)
(*   src/src/sentiment_analyzer.py  (SentimentAnalyzer)                    *)
(*   src/src/pattern_detector.py    (PatternDetector)                      *)
(*   src/src/risk_predictor.py      (RiskPredictor)                        *)
(*   src/src/mcp_server.py          (call_tool)                            *)
(*   src/src/database_manager.py    (AnalysisDatabase.save_analysis)       *)
(*                                                                         *)
(* Numbers.  Every sentiment score, change and mean is kept as an integer  *)
(* number of hundredths (57.25 is 5725); a polarity estimate in [-1,1] is  *)
(* an integer number of hundredths in -100..100.  With such polarities     *)
(* 0.7*keyword_score + 0.3*(polarity+1)*50 is a whole number of            *)
(* hundredths, so round(x, 2) is the identity on every score the model     *)
(* produces.  Comparisons of means are done by cross-multiplication, i.e.  *)
(* in exact rational arithmetic.  A confidence is kept in hundredths as    *)
(* well (0.7 is 70; the detector's min(100, 15*n) is at most 10000).  Risk *)
(* scores, weights, indicator scores and success rates are plain integers. *)
(***************************************************************************)
EXTENDS Integers, Sequences, FiniteSets, TLC

VARIABLES
    op,          \* the operation that produced `result` ("init" before any)
    messages,    \* the message list handed to the operation
    context,     \* the context tag handed to the operation
    result,      \* the structured result (or the raised exception)
    hashseed,    \* the interpreter's string-hash seed (fixed per process)
    prev,        \* SpecRepeat: the result of the same call made before
    scores,      \* SpecTrajectory: the score sequence under analysis
    db,          \* SpecServer: conversations, customer_profiles, risk_alerts
    request,     \* SpecServer: the tool call answered last, numbered in order
    tables,      \* SpecConcurrent: the attributes of the shared component instances
    frames,      \* SpecConcurrent: the arguments and locals of each running call
    final_scores \* SpecDecision: the churn and resolution scores of the final text

vars == <<op, messages, context, result, hashseed, prev, scores, db, request, tables, frames, final_scores>>

(***************************************************************************)
(* Bounds of the model.                                                    *)
(***************************************************************************)
MaxMsgs == 2        \* free-form message lists have at most this many entries
MaxRun == 7         \* two-phase lists (a..a b..b) have at most this many entries
MaxSeed == 1        \* hash seeds 0..MaxSeed
MaxScores == 3      \* SpecTrajectory: free-form score sequences
MaxCalls == 2       \* SpecServer: tool calls served

(***************************************************************************)
(* Strings.                                                                *)
(***************************************************************************)
Max(a, b) == IF a >= b THEN a ELSE b
Min(a, b) == IF a <= b THEN a ELSE b
Abs(a) == IF a >= 0 THEN a ELSE 0 - a

\* Python's `kw in text` for strings: substring containment.
Contains(kw, text) ==
    \E i \in 1..(Len(text) + 1 - Len(kw)) : SubSeq(text, i, i + Len(kw) - 1) = kw

UpperChars == "ABCDEFGHIJKLMNOPQRSTUVWXYZ"
LowerChars == "abcdefghijklmnopqrstuvwxyz"

LowerChar(c) ==
    IF \E k \in 1..Len(UpperChars) : SubSeq(UpperChars, k, k) = c
    THEN LET k == CHOOSE j \in 1..Len(UpperChars) : SubSeq(UpperChars, j, j) = c
         IN SubSeq(LowerChars, k, k)
    ELSE c

\* str.lower(), character by character (the string is split in halves to
\* keep the recursion shallow)
RECURSIVE lower(_)
lower(s) ==
    IF Len(s) = 0 THEN ""
    ELSE IF Len(s) = 1 THEN LowerChar(s)
    ELSE lower(SubSeq(s, 1, Len(s) \div 2)) \o lower(SubSeq(s, Len(s) \div 2 + 1, Len(s)))

\* ' '.join(parts)
RECURSIVE join(_)
join(parts) ==
    IF Len(parts) = 0 THEN ""
    ELSE IF Len(parts) = 1 THEN parts[1]
    ELSE parts[1] \o " " \o join(Tail(parts))

RECURSIVE Sum(_)
Sum(s) == IF Len(s) = 0 THEN 0 ELSE s[1] + Sum(Tail(s))

\* round(x/d) to the nearest integer, ties to even (Python's round and
\* the 'f' format), for d > 0.
RoundDiv(x, d) ==
    LET q == x \div d
        r == x % d
    IN IF 2 * r < d THEN q
       ELSE IF 2 * r > d THEN q + 1
       ELSE IF q % 2 = 0 THEN q ELSE q + 1

\* f"{x:.0f}" of a score kept in hundredths
Fmt0(x) == ToString(RoundDiv(x, 100))

(***************************************************************************)
(* SentimentAnalyzer.__init__: the two lexicons (Python sets: the literal  *)
(* repeats 'love', 'terrible', 'horrible'; a set keeps one of each).       *)
(***************************************************************************)
positive_words == {
    "love", "excellent", "amazing", "fantastic", "wonderful", "great", "good",
    "perfect", "best", "awesome", "brilliant", "outstanding", "superb", "trust",
    "confident", "happy", "thrilled", "delighted", "impressed", "satisfied",
    "encanta", "excelente", "perfecto", "increible", "genial", "bueno", "maravilloso",
    "fantastico", "sobresaliente", "impresionado", "satisfecho", "adoro",
    "me encanta", "fantástico", "fabuloso", "me gusta", "bien", "obra" }

negative_words == {
    "hate", "terrible", "awful", "horrible", "bad", "poor", "worst",
    "disappointed", "frustrated", "angry", "annoyed", "upset", "problem",
    "issue", "bug", "slow", "expensive", "difficult", "fail", "cancel",
    "doubt", "concern", "worried", "unsure", "alternative", "competitor",
    "odio", "malo", "peor", "problema", "bugs",
    "caro", "lento", "difícil", "fracaso", "cancelar", "competencia",
    "competidor", "preocupacion", "inquietud", "alternativa", "dudoso",
    "cambiar", "adios", "adiós", "otros developers", "más barato",
    "renunciar", "renuncia", "renuncie", "partir", "irme", "me voy",
    "dejar", "abandonar", "salir", "terminar", "fin", "otro trabajo",
    "mejor oferta", "buscar", "explorar", "mejores", "mejores roles" }

(***************************************************************************)
(* Message entries.  A wire entry is a str, a dict (with or without the    *)
(* keys 'text' and 'timestamp') or anything else (here: an int).  `pol` is *)
(* what the polarity estimator (TextBlob) returns for the entry's text, in *)
(* hundredths; the estimator is an external library, so its value is an    *)
(* input of the model.  A dict's `text` is the string it carries: under    *)
(* the key 'text' when that key is among `keys`, else under 'content'.     *)
(***************************************************************************)
Str(t, p) ==
    [kind |-> "str", text |-> t, keys |-> {}, timestamp |-> "", num |-> 0, pol |-> p]
Dict(ks, t, ts, p) ==
    [kind |-> "dict", text |-> t, keys |-> ks, timestamp |-> ts, num |-> 0, pol |-> p]
Other(n) ==
    [kind |-> "int", text |-> "", keys |-> {}, timestamp |-> "", num |-> n, pol |-> 0]

\* dict.get(key, default) for the keys 'text' and 'timestamp'
DictGet(msg, key, default) ==
    IF key \in msg.keys THEN (IF key = "text" THEN msg.text ELSE msg.timestamp)
    ELSE default

\* str(msg) of an entry that is neither a dict nor a str
str(msg) == ToString(msg.num)

SpecScenarioPositive == "I love this, excellent service"
SpecScenarioNegative == "I hate this, terrible and broken"
TextChurn    == "I will CANCEL and move to a competitor"
TextAllFour  == "Too slow and expensive, problem after issue: I will cancel and switch to a competitor"
TextPraise   == "Great, good, perfect: the best! Awesome, brilliant and amazing"
TextOutrage  == "Awful, horrible, the worst: bad, poor, I hate it, I am angry and upset"
TextNeutral  == "The service exists"
TextPrice    == "What is the price of the plan?"
TextResolved == "Thanks, I appreciate the help and support: the fix is a real solution"
TextLate     == "The report was better than before but the delivery is late, any discount?"
TextSlowCost == "It is slow and the cost is high"
TextStop     == "Please stop"
TextOther    == "Is there another plan?"
TextExcelente == "excelente"
TextMalo     == "malo"
\* the messages of tests/test_sentiment.py
TestPositive == "Excelente servicio, muy satisfecho"
TestNegative == "Terrible servicio, muy insatisfecho"
TestNeutral  == "El servicio existe"

Texts == { "", SpecScenarioPositive, SpecScenarioNegative, TextChurn, TextAllFour,
           TextPraise, TextOutrage, TextNeutral, TextPrice, TextResolved, TextLate,
           TextSlowCost, TextStop, TextOther, TextExcelente, TextMalo,
           TestPositive, TestNegative, TestNeutral }

\* Polarity estimates tried for a single text (hundredths of [-1,1]).
Polarities == { -100, -50, 0, 40, 100 }

\* The entries free-form lists are made of: each text with one estimate.
Entries == {
    Str(SpecScenarioPositive, 60), Str(SpecScenarioNegative, -80), Str(TextChurn, 0),
    Str(TextAllFour, -100), Str(TextPraise, 100), Str(TextNeutral, 0),
    Str(TextSlowCost, -20), Str(TextLate, 10), Str(TextStop, 0), Str("", 0),
    Dict({"text", "timestamp"}, TextResolved, "2025-11-27 10:00", 40),
    Dict({"timestamp"}, "", "2025-11-27 11:00", 0),
    Other(42) }

\* The entries long (two-phase) lists are made of.
LongEntries == { Str(TextAllFour, -100), Str(TextPraise, 100), Str(TextNeutral, 0),
                 Str(TextChurn, 0), Str(SpecScenarioNegative, -80) }

Repeat(m, n) == [i \in 1..n |-> m]

SingleLists == { <<Str(t, p)>> : t \in Texts, p \in Polarities }
FreeLists == UNION { [1..n -> Entries] : n \in 0..MaxMsgs }
TwoPhaseLists ==
    { Repeat(a, k) \o Repeat(b, n - k) : a \in LongEntries, b \in LongEntries,
                                          k \in 1..MaxRun, n \in 1..MaxRun }
\* the single messages of the tests, a dict with the keys 'content' and 'timestamp'
TestLists ==
    { <<Dict({"content", "timestamp"}, t, "2025-11-27 10:00", 0)>> :
          t \in {TestPositive, TestNegative, TestNeutral} }
MessageLists ==
    SingleLists \cup FreeLists \cup TestLists \cup { l \in TwoPhaseLists : Len(l) <= MaxRun }

Contexts == { "customer", "employee", "investor", "general", "email" }

\* Every text an entry can carry into a component.
KnownTexts == Texts \cup { str(Other(42)) }

(***************************************************************************)
(* SentimentAnalyzer._calculate_sentiment                                  *)
(***************************************************************************)
\* sum(1 for word in self.positive_words if word in text_lower)
positive_count(text_lower) == Cardinality({w \in positive_words : Contains(w, text_lower)})
negative_count(text_lower) == Cardinality({w \in negative_words : Contains(w, text_lower)})

\* 50 + positive_count*10 - negative_count*10  (a plain number, not hundredths)
\* the base score with the negative hits added instead of subtracted
keyword_score_adding_negatives(text) ==
    50 + (positive_count(lower(text)) * 10) + (negative_count(lower(text)) * 10)

keyword_score(text) ==
    LET text_lower == lower(text)
    IN 50 + (positive_count(text_lower) * 10) - (negative_count(text_lower) * 10)

\* keyword_score of every known text, evaluated once.
KeywordScores == [t \in KnownTexts |-> keyword_score(t)]

\* 100 * (0.7*keyword_score + 0.3*((polarity+1)*50)), polarity in hundredths
final_score(text, polarity) ==
    70 * (IF text \in KnownTexts THEN KeywordScores[text] ELSE keyword_score(text))
    + 15 * (polarity + 100)

\* the weighted sum without the final min/max
Unclamped_calculate_sentiment(text, polarity) ==
    IF text = "" THEN 5000 ELSE final_score(text, polarity)

_calculate_sentiment(text, polarity) ==
    IF text = "" THEN 5000
    ELSE Min(10000, Max(0, final_score(text, polarity)))

(***************************************************************************)
(* SentimentAnalyzer._sentiment_state                                      *)
(***************************************************************************)
_sentiment_state(score) ==
    IF score >= 8000 THEN "EXTREMELY_POSITIVE"
    ELSE IF score >= 6000 THEN "POSITIVE"
    ELSE IF score >= 4000 THEN "NEUTRAL"
    ELSE IF score >= 2000 THEN "NEGATIVE"
    ELSE "EXTREMELY_NEGATIVE"

(***************************************************************************)
(* SentimentAnalyzer._calculate_trend                                      *)
(* first_half and second_half are means; diff > 10 is decided on           *)
(* second_sum/d2 - first_sum/d1 by multiplying through with d1*d2.         *)
(***************************************************************************)
\* the comparison with >= and <= in place of > and <
TrendOfDiff_inclusive(num, den) ==
    IF num >= 1000 * den THEN "IMPROVING"
    ELSE IF num <= (0 - 1000) * den THEN "DECLINING"
    ELSE "STABLE"

TrendOfDiff(num, den) ==
    IF num > 1000 * den THEN "IMPROVING"
    ELSE IF num < (0 - 1000) * den THEN "DECLINING"
    ELSE "STABLE"

_calculate_trend(sentiments) ==
    IF Len(sentiments) < 2 THEN "insufficient_data"
    ELSE LET half == Len(sentiments) \div 2
             d1 == Max(1, half)
             d2 == Max(1, Len(sentiments) - half)
             first_sum == Sum(SubSeq(sentiments, 1, half))
             second_sum == Sum(SubSeq(sentiments, half + 1, Len(sentiments)))
         IN TrendOfDiff(second_sum * d1 - first_sum * d2, d1 * d2)

(***************************************************************************)
(* SentimentAnalyzer._find_turning_points                                  *)
(* Python's i (0-based index of the later score) is k below: the pair is   *)
(* sentiments[k], sentiments[k+1] in 1-based terms.                        *)
(***************************************************************************)
turning_severity(change) ==
    IF change > 4000 THEN "CRITICAL" ELSE IF change > 3000 THEN "HIGH" ELSE "MEDIUM"

\* the threshold with >= in place of >
is_turning_point_inclusive(change) == change >= 2000

is_turning_point(change) == change > 2000

RECURSIVE turning_points_from(_, _, _)
turning_points_from(k, sentiments, timeline) ==
    IF k >= Len(sentiments) THEN <<>>
    ELSE LET change == Abs(sentiments[k + 1] - sentiments[k])
             rest == turning_points_from(k + 1, sentiments, timeline)
         IN IF is_turning_point(change)
            THEN << [index |-> k,
                     timestamp |-> timeline[k + 1].timestamp,
                     from_state |-> _sentiment_state(sentiments[k]),
                     to_state |-> _sentiment_state(sentiments[k + 1]),
                     change_magnitude |-> change,
                     severity |-> turning_severity(change)] >> \o rest
            ELSE rest

_find_turning_points(sentiments, timeline) == turning_points_from(1, sentiments, timeline)

(***************************************************************************)
(* SentimentAnalyzer._generate_interpretation                              *)
(***************************************************************************)
interpretation_base(trend, initial, current) ==
    IF trend = "DECLINING"
    THEN "Sentiment is DECLINING overall (from " \o Fmt0(initial) \o " to "
         \o Fmt0(current) \o ")"
    ELSE IF trend = "IMPROVING"
    THEN "Sentiment is IMPROVING overall (from " \o Fmt0(initial) \o " to "
         \o Fmt0(current) \o ")"
    ELSE "Sentiment is STABLE (around " \o Fmt0(current) \o ")"

interpretation_warning(critical_points) ==
    IF Len(critical_points) > 0
    THEN ". WARNING: " \o ToString(Len(critical_points))
         \o " critical sentiment shift(s) detected."
    ELSE ""

interpretation_level(current) ==
    IF current < 3000
    THEN " RISK LEVEL: CRITICAL - Immediate intervention recommended."
    ELSE IF current < 5000
    THEN " RISK LEVEL: HIGH - Attention needed soon."
    ELSE IF current > 7000
    THEN " Status: POSITIVE - No immediate action needed."
    ELSE ""

_generate_interpretation(sentiments, trend, turning_points) ==
    IF Len(sentiments) = 0 THEN "No messages to analyze."
    ELSE interpretation_base(trend, sentiments[1], sentiments[Len(sentiments)])
         \o interpretation_warning(SelectSeq(turning_points, LAMBDA p : p.severity = "CRITICAL"))
         \o interpretation_level(sentiments[Len(sentiments)])

(***************************************************************************)
(* SentimentAnalyzer._empty_analysis and analyze_evolution                 *)
(***************************************************************************)
\* an empty result shaped like that of a single message
_empty_analysis_insufficient ==
    [timeline |-> <<>>, current_sentiment |-> 5000, initial_sentiment |-> 5000,
     trend |-> "insufficient_data", turning_points |-> <<>>, overall_change |-> 0,
     interpretation |-> "No data provided", message_count |-> 0]

_empty_analysis ==
    [timeline |-> <<>>, current_sentiment |-> 0, initial_sentiment |-> 0,
     trend |-> "unknown", turning_points |-> <<>>, overall_change |-> 0,
     interpretation |-> "No data provided", message_count |-> 0]

\* the loop's `text` and `timestamp` for entry i (1-based)
analyzer_text(msg) ==
    IF msg.kind = "dict" THEN DictGet(msg, "text", "")
    ELSE IF msg.kind = "str" THEN msg.text
    ELSE str(msg)

message_label(i) == "Message " \o ToString(i)

entry_timestamp(msg, i) ==
    IF msg.kind = "dict" THEN DictGet(msg, "timestamp", message_label(i))
    ELSE message_label(i)

\* text[:100] + '...' if len(text) > 100 else text
text_preview(text) ==
    IF Len(text) > 100 THEN SubSeq(text, 1, 100) \o "..." ELSE text

\* the entry numbered with the loop index i instead of i + 1
entry_record_zero_based(timestamp, text, sentiment_score, i) ==
    [timestamp |-> timestamp,
     text |-> text_preview(text),
     sentiment_score |-> sentiment_score,
     sentiment_state |-> _sentiment_state(sentiment_score),
     message_index |-> i - 1]

entry_record(timestamp, text, sentiment_score, i) ==
    [timestamp |-> timestamp,
     text |-> text_preview(text),
     sentiment_score |-> sentiment_score,
     sentiment_state |-> _sentiment_state(sentiment_score),
     message_index |-> i]

timeline_entry(msg, i) ==
    entry_record(entry_timestamp(msg, i), analyzer_text(msg),
                 _calculate_sentiment(analyzer_text(msg), msg.pol), i)

\* the dict with sentiments[0] reported as the current sentiment
analysis_result_first_as_current(timeline, sentiments, trend, turning_points) ==
    [timeline |-> timeline,
     current_sentiment |-> sentiments[1],
     initial_sentiment |-> sentiments[1],
     trend |-> trend,
     turning_points |-> turning_points,
     overall_change |-> sentiments[Len(sentiments)] - sentiments[1],
     interpretation |-> _generate_interpretation(sentiments, trend, turning_points),
     message_count |-> Len(timeline)]

\* the dict analyze_evolution returns, from its locals
analysis_result(timeline, sentiments, trend, turning_points) ==
    [timeline |-> timeline,
     current_sentiment |-> sentiments[Len(sentiments)],
     initial_sentiment |-> sentiments[1],
     trend |-> trend,
     turning_points |-> turning_points,
     overall_change |-> sentiments[Len(sentiments)] - sentiments[1],
     interpretation |-> _generate_interpretation(sentiments, trend, turning_points),
     message_count |-> Len(timeline)]

analysis_of(timeline, sentiments) ==
    analysis_result(timeline, sentiments, _calculate_trend(sentiments),
                    _find_turning_points(sentiments, timeline))

\* the loop appends one timeline entry and one score per message
analysis_of_timeline(timeline) ==
    analysis_of(timeline, [i \in 1..Len(timeline) |-> timeline[i].sentiment_score])

analyze_evolution(msgs) ==
    IF Len(msgs) = 0 THEN _empty_analysis
    ELSE analysis_of_timeline([i \in 1..Len(msgs) |-> timeline_entry(msgs[i], i)])

(***************************************************************************)
(* PatternDetector.__init__: the four keyword lists, in list order.        *)
(***************************************************************************)
comparison_keywords == <<
    "competitor", "alternative", "better", "cheaper", "faster",
    "other", "someone else", "another", "different", "switch",
    "change", "similar", "compare", "versus", "instead" >>

frustration_keywords == <<
    "slow", "late", "delayed", "wait", "frustrated", "annoyed",
    "angry", "upset", "disappointed", "problem", "issue", "bug",
    "broken", "not working", "fail", "error", "impossible" >>

disengagement_keywords == <<
    "cancel", "stop", "end", "quit", "leave", "exit", "goodbye",
    "farewell", "thanks anyway", "no thanks", "decline", "refuse",
    "not interested", "moving on", "consider", "think about",
    "evaluate", "looking at" >>

price_keywords == <<
    "expensive", "cost", "price", "cheap", "expensive", "fee",
    "charge", "budget", "discount", "negotiate", "lower" >>

\* breaking_point = None; message indices start at 1, so 0 is free.
None == 0

\* for keyword in keywords: if keyword in text: return {...}; return {'found': False}
first_keyword(keywords, text, type, description) ==
    IF \E k \in 1..Len(keywords) : Contains(keywords[k], text)
    THEN LET k == CHOOSE j \in 1..Len(keywords) :
                      /\ Contains(keywords[j], text)
                      /\ \A h \in 1..(j - 1) : ~Contains(keywords[h], text)
         IN [found |-> TRUE, type |-> type, text |-> keywords[k],
             description |-> description]
    ELSE [found |-> FALSE]

_check_comparisons(text) ==
    first_keyword(comparison_keywords, text, "COMPETITOR_COMPARISON",
                  "Comparing with alternatives or competitors")
_check_frustration(text) ==
    first_keyword(frustration_keywords, text, "FRUSTRATION",
                  "Expressing dissatisfaction or frustration")
_check_disengagement(text) ==
    first_keyword(disengagement_keywords, text, "DISENGAGEMENT",
                  "Showing intent to leave or end relationship")
_check_price(text) ==
    first_keyword(price_keywords, text, "PRICE_CONCERN",
                  "Mentioning cost or pricing concerns")

\* the four checks of a lower-cased text
checks_of(text) ==
    [comparison_signal |-> _check_comparisons(text),
     frustration_signal |-> _check_frustration(text),
     disengagement_signal |-> _check_disengagement(text),
     price_signal |-> _check_price(text)]

\* The four checks of every known text (lower-cased first), evaluated once.
SignalChecks == [t \in KnownTexts |-> checks_of(lower(t))]

signal_checks(t) == IF t \in KnownTexts THEN SignalChecks[t] ELSE checks_of(lower(t))

\* the loop's `text` before .lower()
detector_text(msg) ==
    IF msg.kind = "dict" THEN DictGet(msg, "text", "")
    ELSE IF msg.kind = "str" THEN msg.text
    ELSE str(msg)

comparison_weight == 25
frustration_weight == 30
disengagement_weight == 35
price_weight == 20
frustration_breaking_bar == 30
risk_cap == 100

\* the risk without min(100, .)
uncapped_risk(risk) == risk

\* min(100, msg_risk) and min(100, overall_risk)
cap_risk(risk) == Min(risk_cap, risk)

(***************************************************************************)
(* PatternDetector.detect_signals: one iteration of the loop over the      *)
(* messages.  `locals` holds signals, risk_scores, breaking_point and      *)
(* key_phrases; i is the 1-based index of msg (Python's i + 1).            *)
(***************************************************************************)
detect_locals_init ==
    [signals |-> <<>>, risk_scores |-> <<>>, breaking_point |-> None, key_phrases |-> <<>>]

\* the assignment without the `breaking_point is None` test
overwriting_breaking_point(bp, i) == i

breaking_after_comparison(bp, i) == IF bp = None THEN i ELSE bp
\* the frustration branch with >= in place of >
breaking_after_frustration_inclusive(bp, i, msg_risk) ==
    IF bp = None /\ msg_risk >= frustration_breaking_bar THEN i ELSE bp

breaking_after_frustration(bp, i, msg_risk) ==
    IF bp = None /\ msg_risk > frustration_breaking_bar THEN i ELSE bp
breaking_after_disengagement(bp, i) == IF bp = None THEN i ELSE bp

\* msg_risk when the frustration branch tests it
risk_at_frustration(checks) ==
    (IF checks.comparison_signal.found THEN comparison_weight ELSE 0) + frustration_weight

\* msg_risk at the end of the iteration
msg_risk_of(checks) ==
    (IF checks.comparison_signal.found THEN comparison_weight ELSE 0)
    + (IF checks.frustration_signal.found THEN frustration_weight ELSE 0)
    + (IF checks.disengagement_signal.found THEN disengagement_weight ELSE 0)
    + (IF checks.price_signal.found THEN price_weight ELSE 0)

\* msg_signals at the end of the iteration
msg_signals_of(checks) ==
    (IF checks.comparison_signal.found THEN <<checks.comparison_signal>> ELSE <<>>)
    \o (IF checks.frustration_signal.found THEN <<checks.frustration_signal>> ELSE <<>>)
    \o (IF checks.disengagement_signal.found THEN <<checks.disengagement_signal>> ELSE <<>>)
    \o (IF checks.price_signal.found THEN <<checks.price_signal>> ELSE <<>>)

\* breaking_point after each of the three branches that may assign it
breaking_in_comparison(bp, i, checks) ==
    IF checks.comparison_signal.found THEN breaking_after_comparison(bp, i) ELSE bp
breaking_in_frustration(bp, i, checks) ==
    IF checks.frustration_signal.found
    THEN breaking_after_frustration(bp, i, risk_at_frustration(checks))
    ELSE bp
breaking_in_disengagement(bp, i, checks) ==
    IF checks.disengagement_signal.found THEN breaking_after_disengagement(bp, i) ELSE bp

breaking_point_of(bp, i, checks) ==
    breaking_in_disengagement(
        breaking_in_frustration(breaking_in_comparison(bp, i, checks), i, checks),
        i, checks)

phrases_of(msg_signals) == [j \in 1..Len(msg_signals) |-> msg_signals[j].text]

step_locals(locals, timestamp, i, msg_signals, msg_risk, bp) ==
    [signals |->
        IF Len(msg_signals) > 0
        THEN Append(locals.signals,
                    [message_index |-> i,
                     timestamp |-> timestamp,
                     signals |-> msg_signals,
                     risk_score |-> cap_risk(msg_risk)])
        ELSE locals.signals,
     risk_scores |->
        IF Len(msg_signals) > 0 THEN Append(locals.risk_scores, msg_risk)
        ELSE locals.risk_scores,
     breaking_point |-> bp,
     key_phrases |-> locals.key_phrases \o phrases_of(msg_signals)]

step_with(locals, msg, i, checks) ==
    step_locals(locals, entry_timestamp(msg, i), i, msg_signals_of(checks),
                msg_risk_of(checks), breaking_point_of(locals.breaking_point, i, checks))

detect_step(locals, msg, i) == step_with(locals, msg, i, signal_checks(detector_text(msg)))

\* the locals after the first n messages
RECURSIVE detect_loop(_, _)
detect_loop(msgs, n) ==
    IF n = 0 THEN detect_locals_init
    ELSE detect_step(detect_loop(msgs, n - 1), msgs[n], n)

(***************************************************************************)
(* PatternDetector._assess_risk_level                                      *)
(***************************************************************************)
_assess_risk_level(risk_score) ==
    IF risk_score >= 70 THEN "CRITICAL"
    ELSE IF risk_score >= 50 THEN "HIGH"
    ELSE IF risk_score >= 30 THEN "MEDIUM"
    ELSE "LOW"

(***************************************************************************)
(* PatternDetector._generate_recommendations                               *)
(* `signals` holds the per-message groups (message_index, timestamp,       *)
(* signals, risk_score); s.get('type') looks the key up in such a group.   *)
(* The leading warning pictograph of the first string is left out.         *)
(***************************************************************************)
group_get_type(s) == IF "type" \in DOMAIN s THEN s["type"] ELSE "None"

take(s, n) == SubSeq(s, 1, Min(n, Len(s)))

\* the clauses with 'email' read as one more customer context
recommendations_email_as_customer(ctx, risk_level, signals, breaking_point) ==
    take((IF risk_level = "CRITICAL"
          THEN <<"URGENT: Immediate intervention required">> ELSE <<>>)
         \o (IF ctx \in {"customer", "email"} /\ risk_level \in {"CRITICAL", "HIGH"}
             THEN <<"Contact customer immediately to address concerns",
                    "Prepare retention offer (discount/upgrade)",
                    "Escalate to account manager">>
             ELSE IF ctx = "employee" /\ risk_level \in {"CRITICAL", "HIGH"}
             THEN <<"Schedule 1-on-1 with HR or manager",
                    "Identify root cause of dissatisfaction",
                    "Prepare retention plan">>
             ELSE IF ctx = "investor" /\ risk_level \in {"CRITICAL", "HIGH"}
             THEN <<"Prepare detailed response addressing concerns",
                    "Schedule follow-up meeting">>
             ELSE <<>>), 5)

_generate_recommendations(ctx, risk_level, signals, breaking_point) ==
    LET urgent ==
            IF risk_level = "CRITICAL"
            THEN <<"URGENT: Immediate intervention required">>
                 \o (IF breaking_point # None
                     THEN <<"Breaking point detected at message " \o ToString(breaking_point)>>
                     ELSE <<>>)
            ELSE <<>>
        high == risk_level \in {"CRITICAL", "HIGH"}
        by_context ==
            IF ctx = "customer"
            THEN (IF high THEN <<"Contact customer immediately to address concerns",
                                 "Prepare retention offer (discount/upgrade)",
                                 "Escalate to account manager">> ELSE <<>>)
            ELSE IF ctx = "employee"
            THEN (IF high THEN <<"Schedule 1-on-1 with HR or manager",
                                 "Identify root cause of dissatisfaction",
                                 "Prepare retention plan">> ELSE <<>>)
            ELSE IF ctx = "investor"
            THEN (IF high THEN <<"Prepare detailed response addressing concerns",
                                 "Schedule follow-up meeting">> ELSE <<>>)
            ELSE <<>>
        competitive ==
            IF \E j \in 1..Len(signals) : group_get_type(signals[j]) = "COMPETITOR_COMPARISON"
            THEN <<"Counter competitive threats with unique value proposition">>
            ELSE <<>>
        pricing ==
            IF \E j \in 1..Len(signals) : group_get_type(signals[j]) = "PRICE_CONCERN"
            THEN <<"Review pricing strategy and alternative plans">>
            ELSE <<>>
    IN take(urgent \o by_context \o competitive \o pricing, 5)

(***************************************************************************)
(* list(set(key_phrases))[:5].  The iteration order of a set of str is     *)
(* that of the strings' hashes, which the interpreter salts per process    *)
(* (hashseed): any order is possible, the same within one process.  The    *)
(* model orders by a rank that depends on the seed.                        *)
(***************************************************************************)
all_keywords ==
    comparison_keywords \o frustration_keywords \o disengagement_keywords \o price_keywords

keyword_index(kw) == CHOOSE k \in 1..Len(all_keywords) :
    /\ all_keywords[k] = kw
    /\ \A h \in 1..(k - 1) : all_keywords[h] # kw

hash_rank(kw, seed) == (keyword_index(kw) * (seed + 1)) % 67

RECURSIVE set_order(_, _)
set_order(S, seed) ==
    IF S = {} THEN <<>>
    ELSE LET m == CHOOSE x \in S : \A y \in S : hash_rank(x, seed) <= hash_rank(y, seed)
         IN <<m>> \o set_order(S \ {m}, seed)

list_of_set(phrases, seed) ==
    set_order({phrases[j] : j \in 1..Len(phrases)}, seed)

(***************************************************************************)
(* PatternDetector._empty_signals and detect_signals                       *)
(***************************************************************************)
_empty_signals ==
    [signals |-> <<>>, risk_level |-> "UNKNOWN", confidence |-> 0,
     breaking_point |-> None, key_phrases |-> <<>>, recommendations |-> <<>>]

RECURSIVE MaxOf(_)
MaxOf(s) == IF Len(s) = 1 THEN s[1] ELSE Max(s[1], MaxOf(Tail(s)))

\* the contribution of the latest message with a signal in place of the maximum
latest_risk_of(risk_scores) ==
    IF Len(risk_scores) > 0 THEN risk_scores[Len(risk_scores)] ELSE 0

\* the mean of the contributions in place of their maximum
average_risk_of(risk_scores) ==
    IF Len(risk_scores) > 0 THEN Sum(risk_scores) \div Len(risk_scores) ELSE 0

\* max(risk_scores) if risk_scores else 0
overall_risk_of(risk_scores) == IF Len(risk_scores) > 0 THEN MaxOf(risk_scores) ELSE 0

\* min(100, len(signals) * 15), in hundredths like every confidence
detector_confidence(signals) == Min(100 * 100, Len(signals) * 15 * 100)

\* the confidence without min(100, .)
uncapped_detector_confidence(signals) == Len(signals) * 15 * 100

\* the dict detect_signals returns, from its locals
signals_result(locals, ctx, seed, overall_risk, risk_level) ==
    [signals |-> locals.signals,
     risk_level |-> risk_level,
     confidence |-> detector_confidence(locals.signals),
     breaking_point |-> locals.breaking_point,
     key_phrases |-> take(list_of_set(locals.key_phrases, seed), 5),
     recommendations |->
         _generate_recommendations(ctx, risk_level, locals.signals, locals.breaking_point),
     total_risk_score |-> cap_risk(overall_risk)]

signals_with_risk(locals, ctx, seed, overall_risk) ==
    signals_result(locals, ctx, seed, overall_risk, _assess_risk_level(overall_risk))

signals_of(locals, ctx, seed) ==
    signals_with_risk(locals, ctx, seed, overall_risk_of(locals.risk_scores))

detect_signals(msgs, ctx, seed) ==
    IF Len(msgs) = 0 THEN _empty_signals
    ELSE signals_of(detect_loop(msgs, Len(msgs)), ctx, seed)

(***************************************************************************)
(* RiskPredictor.__init__: the indicator lists.                            *)
(***************************************************************************)
churn_indicators == <<
    "cancel", "leave", "stop", "switch", "competitor", "alternative",
    "expensive", "slow", "disappointed", "problem", "issue" >>

resolution_indicators == <<
    "understand", "sorry", "appreciate", "help", "support", "solution",
    "fix", "improve", "better", "thanks" >>

indicator_points == 15
indicator_cap == 100

\* score += 15 for every indicator found in text; min(100, score)
indicator_score(indicators, text) ==
    Min(indicator_cap,
        indicator_points
        * Cardinality({k \in 1..Len(indicators) : Contains(indicators[k], text)}))

_score_churn_risk(text) == indicator_score(churn_indicators, text)
_score_resolution_likelihood(text) == indicator_score(resolution_indicators, text)

(***************************************************************************)
(* RiskPredictor._predict_primary_action (current_sentiment in hundredths) *)
(***************************************************************************)
\* the same rules with the escalation rule tried first
escalation_first_action(current_sentiment, trend, churn_score, resolution_score, ctx) ==
    IF current_sentiment < 3000 /\ trend = "DECLINING" THEN "ESCALATION_NEEDED"
    ELSE IF churn_score > 50 /\ current_sentiment < 4000 THEN "LIKELY_CHURN"
    ELSE IF resolution_score > 50 /\ trend = "IMPROVING" THEN "LIKELY_RESOLUTION"
    ELSE IF current_sentiment > 5000 /\ trend # "DECLINING" THEN "LIKELY_STAY"
    ELSE "MONITOR_CLOSELY"

_predict_primary_action(current_sentiment, trend, churn_score, resolution_score, ctx) ==
    IF churn_score > 50 /\ current_sentiment < 4000 THEN "LIKELY_CHURN"
    ELSE IF resolution_score > 50 /\ trend = "IMPROVING" THEN "LIKELY_RESOLUTION"
    ELSE IF current_sentiment > 5000 /\ trend # "DECLINING" THEN "LIKELY_STAY"
    ELSE IF current_sentiment < 3000 /\ trend = "DECLINING" THEN "ESCALATION_NEEDED"
    ELSE "MONITOR_CLOSELY"

(***************************************************************************)
(* RiskPredictor._calculate_confidence.  trend_strength divides by the     *)
(* number of scores n, so the value is the fraction num/den of a point     *)
(* with den = 100*n; confidence_cap is min(100, .) on that fraction.       *)
(***************************************************************************)
confidence_cap(num, den) == Min(100 * den, num)

confidence_by_length(n) == IF n >= 5 THEN 20 ELSE IF n >= 3 THEN 10 ELSE 0

\* min(20, trend_strength), times 100 * n
confidence_by_strength(sentiments, n) ==
    IF n >= 3
    THEN Min(20 * 100 * n,
             Abs(Sum(SubSeq(sentiments, n - 1, n)) - Sum(SubSeq(sentiments, 1, 2))))
    ELSE 0

confidence_by_indicator(churn_score, resolution_score) ==
    IF Max(churn_score, resolution_score) > 60 THEN 15 ELSE 0

confidence_fraction(sentiments, n, points) ==
    [num |-> confidence_cap(points * 100 * n + confidence_by_strength(sentiments, n), 100 * n),
     den |-> 100 * n]

_calculate_confidence(sentiments, churn_score, resolution_score) ==
    confidence_fraction(sentiments, Len(sentiments),
                        50 + confidence_by_length(Len(sentiments))
                           + confidence_by_indicator(churn_score, resolution_score))

\* round(x, 1) of the fraction q.num/q.den of a point, in hundredths
round1(q) == 10 * RoundDiv(10 * q.num, q.den)

(***************************************************************************)
(* RiskPredictor._predict_timeline and _assess_urgency                     *)
(***************************************************************************)
\* the timeline with `or` in place of `and` in the first test
_predict_timeline_either(trend, current_sentiment, churn_score, ctx) ==
    IF current_sentiment < 2000 \/ churn_score > 80 THEN "IMMEDIATE (0-24 hours)"
    ELSE IF trend = "DECLINING" /\ churn_score > 60 THEN "VERY_SOON (1-3 days)"
    ELSE IF churn_score > 50 \/ current_sentiment < 4000 THEN "SOON (3-7 days)"
    ELSE IF current_sentiment < 5000 THEN "MEDIUM_TERM (1-4 weeks)"
    ELSE "EXTENDED (1-3 months)"

_predict_timeline(trend, current_sentiment, churn_score, ctx) ==
    IF current_sentiment < 2000 /\ churn_score > 80 THEN "IMMEDIATE (0-24 hours)"
    ELSE IF trend = "DECLINING" /\ churn_score > 60 THEN "VERY_SOON (1-3 days)"
    ELSE IF churn_score > 50 \/ current_sentiment < 4000 THEN "SOON (3-7 days)"
    ELSE IF current_sentiment < 5000 THEN "MEDIUM_TERM (1-4 weeks)"
    ELSE "EXTENDED (1-3 months)"

\* the urgency with <= and >= in place of < and >
_assess_urgency_inclusive(current_sentiment, churn_score, action) ==
    IF current_sentiment <= 2000 \/ churn_score >= 80 \/ action = "LIKELY_CHURN"
    THEN "CRITICAL"
    ELSE IF current_sentiment <= 4000 \/ churn_score >= 60 \/ action = "ESCALATION_NEEDED"
    THEN "HIGH"
    ELSE IF current_sentiment <= 5000 \/ churn_score >= 40 THEN "MEDIUM"
    ELSE "LOW"

_assess_urgency(current_sentiment, churn_score, action) ==
    IF current_sentiment < 2000 \/ churn_score > 80 \/ action = "LIKELY_CHURN"
    THEN "CRITICAL"
    ELSE IF current_sentiment < 4000 \/ churn_score > 60 \/ action = "ESCALATION_NEEDED"
    THEN "HIGH"
    ELSE IF current_sentiment < 5000 \/ churn_score > 40 THEN "MEDIUM"
    ELSE "LOW"

(***************************************************************************)
(* RiskPredictor._generate_interventions (the leading pictographs of the   *)
(* first string of each action are left out).                              *)
(***************************************************************************)
_generate_interventions(action, ctx, urgency, sentiment) ==
    LET by_action ==
            IF action = "LIKELY_CHURN"
            THEN <<"Immediate outreach required", "Prepare retention offer",
                   "Escalate to senior management">>
            ELSE IF action = "ESCALATION_NEEDED"
            THEN <<"Schedule urgent meeting", "Identify root cause",
                   "Prepare solution options">>
            ELSE IF action = "LIKELY_RESOLUTION"
            THEN <<"Prepare resolution proposal", "Schedule follow-up">>
            ELSE <<>>
        pressing == urgency \in {"CRITICAL", "HIGH"}
        by_context ==
            IF ctx = "customer"
            THEN (IF pressing THEN <<"Offer priority support/upgrade",
                                     "Consider special pricing">> ELSE <<>>)
            ELSE IF ctx = "employee"
            THEN (IF pressing THEN <<"Schedule HR meeting",
                                     "Assess job satisfaction">> ELSE <<>>)
            ELSE <<>>
    IN take(by_action \o by_context, 4)

(***************************************************************************)
(* RiskPredictor._calculate_intervention_success                           *)
(***************************************************************************)
urgency_map(urgency) ==
    CASE urgency = "CRITICAL" -> 0 - 20
      [] urgency = "HIGH" -> 0 - 10
      [] urgency = "MEDIUM" -> 0
      [] urgency = "LOW" -> 10
      [] OTHER -> 0

action_map(action) ==
    CASE action = "LIKELY_RESOLUTION" -> 20
      [] action = "LIKELY_STAY" -> 15
      [] action = "MONITOR_CLOSELY" -> 5
      [] action = "ESCALATION_NEEDED" -> 0 - 5
      [] action = "LIKELY_CHURN" -> 0 - 15
      [] OTHER -> 0

success_clamp(base_success) == Max(20, Min(95, base_success))

_calculate_intervention_success(ctx, urgency, action) ==
    success_clamp(60 + urgency_map(urgency) + action_map(action)
                  + (IF ctx \in {"customer", "employee"} THEN 10 ELSE 0))

(***************************************************************************)
(* RiskPredictor._generate_explanation                                     *)
(***************************************************************************)
explanation_tail(action, churn_score) ==
    IF action = "LIKELY_CHURN"
    THEN "the subject shows strong churn indicators ("
         \o ToString(churn_score) \o "/100). "
         \o "Immediate action strongly recommended to prevent departure."
    ELSE IF action = "LIKELY_RESOLUTION"
    THEN "the situation appears to be resolving. "
         \o "Continue supportive approach and follow up soon."
    ELSE IF action = "LIKELY_STAY"
    THEN "the relationship appears stable. "
         \o "Maintain current level of service and monitor for changes."
    ELSE IF action = "ESCALATION_NEEDED"
    THEN "the situation has deteriorated significantly. "
         \o "Escalation and intervention are necessary."
    ELSE "signals are mixed. Continue monitoring closely."

_generate_explanation(action, sentiment, trend, churn_score) ==
    "Based on current sentiment (" \o Fmt0(sentiment) \o "/100) and "
    \o lower(trend) \o " trend, " \o explanation_tail(action, churn_score)

(***************************************************************************)
(* RiskPredictor._empty_prediction and predict_action                      *)
(***************************************************************************)
_empty_prediction ==
    [action |-> "UNKNOWN", confidence |-> 0, timeline |-> "UNKNOWN", urgency |-> "UNKNOWN",
     interventions |-> <<>>, success_rate |-> 0, explanation |-> "No data provided"]

\* messages[-3:] if len(messages) >= 3 else messages
final_messages(msgs) ==
    IF Len(msgs) >= 3 THEN SubSeq(msgs, Len(msgs) - 2, Len(msgs)) ELSE msgs

\* m.get('text', '') if isinstance(m, dict) else m
final_part(m) == IF m.kind = "dict" THEN DictGet(m, "text", "") ELSE m.text

\* str.join raises TypeError on an item that is not a str
join_raises(parts) == \E j \in 1..Len(parts) : parts[j].kind \notin {"dict", "str"}

\* a join that would convert every item with str() first
coerced_join_raises(parts) == FALSE

\* str(e) of that TypeError
join_error(parts) ==
    LET j == CHOOSE k \in 1..Len(parts) :
                 /\ parts[k].kind \notin {"dict", "str"}
                 /\ \A h \in 1..(k - 1) : parts[h].kind \in {"dict", "str"}
    IN "sequence item " \o ToString(j - 1) \o ": expected str instance, int found"

\* the dict predict_action returns, from its locals
prediction_result(sentiment_data, ctx, churn_score, action, confidence, urgency) ==
    [action |-> action,
     confidence |-> round1(confidence),
     timeline |-> _predict_timeline(sentiment_data.trend, sentiment_data.current_sentiment,
                                    churn_score, ctx),
     urgency |-> urgency,
     interventions |-> _generate_interventions(action, ctx, urgency,
                                               sentiment_data.current_sentiment),
     success_rate |-> _calculate_intervention_success(ctx, urgency, action),
     explanation |-> _generate_explanation(action, sentiment_data.current_sentiment,
                                           sentiment_data.trend, churn_score),
     sentiment_trajectory |->
         [initial |-> sentiment_data.initial_sentiment,
          current |-> sentiment_data.current_sentiment,
          trend |-> sentiment_data.trend,
          overall_change |-> sentiment_data.overall_change]]

prediction_of_action(sentiment_data, ctx, churn_score, resolution_score, action) ==
    prediction_result(sentiment_data, ctx, churn_score, action,
        _calculate_confidence(
            [i \in 1..Len(sentiment_data.timeline) |-> sentiment_data.timeline[i].sentiment_score],
            churn_score, resolution_score),
        _assess_urgency(sentiment_data.current_sentiment, churn_score, action))

prediction_of_scores(sentiment_data, ctx, churn_score, resolution_score) ==
    prediction_of_action(sentiment_data, ctx, churn_score, resolution_score,
        _predict_primary_action(sentiment_data.current_sentiment, sentiment_data.trend,
                                churn_score, resolution_score, ctx))

prediction_of_text(sentiment_data, ctx, final_text) ==
    prediction_of_scores(sentiment_data, ctx, _score_churn_risk(final_text),
                         _score_resolution_likelihood(final_text))

prediction_of(sentiment_data, ctx, final) ==
    IF join_raises(final) THEN [raised |-> "TypeError", message |-> join_error(final)]
    ELSE prediction_of_text(sentiment_data, ctx,
                            lower(join([j \in 1..Len(final) |-> final_part(final[j])])))

predict_action(msgs, ctx) ==
    IF Len(msgs) = 0 THEN _empty_prediction
    ELSE prediction_of(analyze_evolution(msgs), ctx, final_messages(msgs))

(***************************************************************************)
(* Spec: one call of one operation on an input drawn by Init.              *)
(* SpecRepeat: the call, then the same call again, in the same interpreter *)
(* process or after a restart of it (which draws a new hash seed).         *)
(***************************************************************************)
NoValue == [none |-> TRUE]

Init ==
    /\ op = "init"
    /\ messages \in MessageLists
    /\ context \in Contexts
    /\ result = NoValue
    /\ hashseed \in 0..MaxSeed
    /\ prev = NoValue
    /\ scores = <<>>
    /\ db = NoValue
    /\ request = NoValue
    /\ tables = NoValue
    /\ frames = NoValue
    /\ final_scores = NoValue

AnalyzeEvolution ==
    /\ op = "init"
    /\ op' = "analyze_evolution"
    /\ result' = analyze_evolution(messages)
    /\ UNCHANGED <<messages, context, hashseed, prev, scores, db, request, tables, frames, final_scores>>

DetectSignals ==
    /\ op = "init"
    /\ op' = "detect_signals"
    /\ result' = detect_signals(messages, context, hashseed)
    /\ UNCHANGED <<messages, context, hashseed, prev, scores, db, request, tables, frames, final_scores>>

PredictAction ==
    /\ op = "init"
    /\ op' = "predict_action"
    /\ result' = predict_action(messages, context)
    /\ UNCHANGED <<messages, context, hashseed, prev, scores, db, request, tables, frames, final_scores>>

Next ==
    \/ AnalyzeEvolution
    \/ DetectSignals
    \/ PredictAction

Spec == Init /\ [][Next]_vars

\* Conversations whose messages match more than five distinct keywords,
\* and some that match few.
RepeatLists ==
    { l \in FreeLists :
        /\ Len(l) > 0
        /\ \A i \in 1..Len(l) : l[i] \in { Str(TextAllFour, -100), Str(TextLate, 10),
                                           Str(TextNeutral, 0), Str(TextStop, 0) } }

InitRepeat ==
    /\ op = "init"
    /\ messages \in RepeatLists
    /\ context \in Contexts
    /\ result = NoValue
    /\ hashseed \in 0..MaxSeed
    /\ prev = NoValue
    /\ scores = <<>>
    /\ db = NoValue
    /\ request = NoValue
    /\ tables = NoValue
    /\ frames = NoValue
    /\ final_scores = NoValue

\* The interpreter process ends and a new one starts: the analyzer, detector
\* and predictor are constructed again from the same literals; the string
\* hash seed is drawn anew.
Restart ==
    /\ op # "init"
    /\ prev = NoValue
    /\ hashseed' \in 0..MaxSeed
    /\ hashseed' # hashseed
    /\ UNCHANGED <<op, messages, context, result, prev, scores, db, request, tables, frames, final_scores>>

call(name, msgs, ctx, seed) ==
    IF name = "analyze_evolution" THEN analyze_evolution(msgs)
    ELSE IF name = "detect_signals" THEN detect_signals(msgs, ctx, seed)
    ELSE predict_action(msgs, ctx)

\* The same operation is called again with the same messages and context.
CallAgain ==
    /\ op # "init"
    /\ prev = NoValue
    /\ prev' = result
    /\ result' = call(op, messages, context, hashseed)
    /\ UNCHANGED <<op, messages, context, hashseed, scores, db, request, tables, frames, final_scores>>

NextRepeat ==
    \/ AnalyzeEvolution
    \/ DetectSignals
    \/ PredictAction
    \/ Restart
    \/ CallAgain

SpecRepeat == InitRepeat /\ [][NextRepeat]_vars

(***************************************************************************)
(* SpecTrajectory: _calculate_trend and _find_turning_points applied to a  *)
(* score sequence drawn by Init (scores in hundredths).                    *)
(***************************************************************************)
ScoreValues == { 0, 2000, 4000, 5000, 6000, 6001, 8000, 10000 }

SpecScenarioDeclining == <<8000, 7500, 7000, 6500, 6000>>
TestScenarioRising == <<3000, 4000, 5000, 6000, 7000>>
TestScenarioStable == <<5000, 5000, 5000, 5000, 5000>>

ScoreSequences ==
    UNION { [1..n -> ScoreValues] : n \in 0..MaxScores }
    \cup { SpecScenarioDeclining, TestScenarioRising, TestScenarioStable }

\* the timeline analyze_evolution would pass along with these scores
timeline_of_scores(sentiments) ==
    [i \in 1..Len(sentiments) |->
        [timestamp |-> message_label(i), text |-> "",
         sentiment_score |-> sentiments[i],
         sentiment_state |-> _sentiment_state(sentiments[i]),
         message_index |-> i]]

InitTrajectory ==
    /\ op = "init"
    /\ messages = <<>>
    /\ context = "general"
    /\ result = NoValue
    /\ hashseed = 0
    /\ prev = NoValue
    /\ scores \in ScoreSequences
    /\ db = NoValue
    /\ request = NoValue
    /\ tables = NoValue
    /\ frames = NoValue
    /\ final_scores = NoValue

CalculateTrend ==
    /\ op = "init"
    /\ op' = "_calculate_trend"
    /\ result' = [trend |-> _calculate_trend(scores)]
    /\ UNCHANGED <<messages, context, hashseed, prev, scores, db, request, tables, frames, final_scores>>

FindTurningPoints ==
    /\ op = "init"
    /\ op' = "_find_turning_points"
    /\ result' = [turning_points |-> _find_turning_points(scores, timeline_of_scores(scores))]
    /\ UNCHANGED <<messages, context, hashseed, prev, scores, db, request, tables, frames, final_scores>>

NextTrajectory ==
    \/ CalculateTrend
    \/ FindTurningPoints

SpecTrajectory == InitTrajectory /\ [][NextTrajectory]_vars

(***************************************************************************)
(* AnalysisDatabase (database_manager.py).  The three tables are sequences *)
(* of rows in insertion order; a row's id is its position (AUTOINCREMENT,  *)
(* no row is ever deleted).  The CURRENT_TIMESTAMP columns are left out.   *)
(* A REAL column holding a score or a confidence is kept in hundredths;    *)
(* lifetime_sentiment, a running mean, is the exact fraction num/den of    *)
(* hundredths.                                                             *)
(***************************************************************************)
_init_database == [conversations |-> <<>>, customer_profiles |-> <<>>, risk_alerts |-> <<>>]

\* analysis.get(key, default)
analysis_get(analysis, key, default) ==
    IF key \in DOMAIN analysis THEN analysis[key] ELSE default

RECURSIVE gcd(_, _)
gcd(a, b) == IF b = 0 THEN a ELSE gcd(b, a % b)

\* the fraction num/den in lowest terms (den > 0, num >= 0)
fraction(num, den) ==
    LET g == gcd(num, den)
    IN IF g = 0 THEN [num |-> 0, den |-> 1] ELSE [num |-> num \div g, den |-> den \div g]

alert_threshold == 70      \* confidence > 0.7
high_threshold == 85       \* confidence > 0.85

\* the alert condition with the threshold read on the 0..100 scale
creates_alert_percent(confidence) == confidence > alert_threshold * 100

\* the alert condition with >= in place of >
creates_alert_inclusive(confidence) == confidence >= alert_threshold

creates_alert(confidence) == confidence > alert_threshold

alert_severity(confidence) == IF confidence > high_threshold THEN "HIGH" ELSE "MEDIUM"

\* f"Detected {analysis.get('trend')} trend with {confidence*100:.0f}% confidence"
alert_notes(analysis) ==
    "Detected " \o analysis_get(analysis, "trend", "None") \o " trend with "
        \o ToString(analysis_get(analysis, "confidence", 0)) \o "% confidence"

profile_index(profiles, customer_id) ==
    IF \E k \in 1..Len(profiles) : profiles[k].customer_id = customer_id
    THEN CHOOSE k \in 1..Len(profiles) : profiles[k].customer_id = customer_id
    ELSE 0

\* INSERT INTO conversations
conversation_row(id, customer_id, context_type, msgs, analysis) ==
    [id |-> id,
     customer_id |-> customer_id,
     context_type |-> context_type,
     messages |-> msgs,
     sentiment_score |-> analysis_get(analysis, "current_sentiment", 0),
     trend |-> analysis_get(analysis, "trend", "UNKNOWN"),
     risk_level |-> analysis_get(analysis, "risk_level", "UNKNOWN"),
     predicted_action |-> analysis_get(analysis, "predicted_action", "UNKNOWN"),
     confidence |-> analysis_get(analysis, "confidence", 0)]

\* the UPDATE with the mean taken over the count after the increment
updated_profile_counting_twice(profile, sentiment, confidence) ==
    [profile EXCEPT
        !.total_interactions = profile.total_interactions + 1,
        !.churn_risk = confidence,
        !.lifetime_sentiment =
            fraction(profile.lifetime_sentiment.num * (profile.total_interactions + 1)
                         + sentiment * profile.lifetime_sentiment.den,
                     profile.lifetime_sentiment.den * (profile.total_interactions + 2))]

\* UPDATE customer_profiles: every right-hand side reads the row as it was
updated_profile(profile, sentiment, confidence) ==
    [profile EXCEPT
        !.total_interactions = profile.total_interactions + 1,
        !.churn_risk = confidence,
        !.lifetime_sentiment =
            fraction(profile.lifetime_sentiment.num * profile.total_interactions
                         + sentiment * profile.lifetime_sentiment.den,
                     profile.lifetime_sentiment.den * (profile.total_interactions + 1))]

\* INSERT INTO customer_profiles
new_profile(id, customer_id, context_type, sentiment, confidence) ==
    [id |-> id,
     customer_id |-> customer_id,
     context_type |-> context_type,
     total_interactions |-> 1,
     churn_risk |-> confidence,
     lifetime_sentiment |-> fraction(sentiment, 1)]

profiles_after(profiles, k, customer_id, context_type, sentiment, confidence) ==
    IF k # 0
    THEN [profiles EXCEPT ![k] = updated_profile(profiles[k], sentiment, confidence)]
    ELSE Append(profiles,
                new_profile(Len(profiles) + 1, customer_id, context_type, sentiment, confidence))

\* INSERT INTO risk_alerts
alert_row(id, customer_id, analysis, confidence) ==
    [id |-> id,
     customer_id |-> customer_id,
     alert_type |-> analysis_get(analysis, "predicted_action", "UNKNOWN"),
     severity |-> alert_severity(confidence),
     resolved |-> 0,
     notes |-> alert_notes(analysis)]

alerts_after(alerts, customer_id, analysis, confidence) ==
    IF creates_alert(confidence)
    THEN Append(alerts, alert_row(Len(alerts) + 1, customer_id, analysis, confidence))
    ELSE alerts

\* AnalysisDatabase.save_analysis: the database after the call; the
\* analysis id returned is the id of the last conversation row.
save_analysis(database, customer_id, context_type, msgs, analysis) ==
    [conversations |->
        Append(database.conversations,
               conversation_row(Len(database.conversations) + 1, customer_id, context_type,
                                msgs, analysis)),
     customer_profiles |->
        profiles_after(database.customer_profiles,
                       profile_index(database.customer_profiles, customer_id),
                       customer_id, context_type,
                       analysis_get(analysis, "current_sentiment", 0),
                       analysis_get(analysis, "confidence", 0)),
     risk_alerts |->
        alerts_after(database.risk_alerts, customer_id, analysis,
                     analysis_get(analysis, "confidence", 0))]

(***************************************************************************)
(* The read methods and resolve_alert.  A result set is the set of its     *)
(* rows: the ORDER BY columns are timestamps and churn_risk, whose ties    *)
(* SQLite returns in no fixed order.  LIMIT 10 cuts nothing off while a    *)
(* customer has at most 10 conversations.                                  *)
(***************************************************************************)
rows_where(table, customer_id) ==
    { table[k] : k \in { j \in 1..Len(table) : table[j].customer_id = customer_id } }

\* WHERE customer_id = ? AND resolved = 0
unresolved_alerts(alerts, customer_id) ==
    { a \in rows_where(alerts, customer_id) : a.resolved = 0 }

\* fetchone() of the profile query: the row, or None
profile_of(profiles, k) == IF k = 0 THEN NoValue ELSE profiles[k]

get_customer_history(database, customer_id) ==
    [profile |-> profile_of(database.customer_profiles,
                            profile_index(database.customer_profiles, customer_id)),
     analyses |-> rows_where(database.conversations, customer_id),
     active_alerts |-> unresolved_alerts(database.risk_alerts, customer_id)]

\* COUNT(ra.id) over the two LEFT JOINs: every unresolved alert of the
\* customer is paired with every conversation of the customer (with one
\* all-NULL row when there is none), and each pair is one counted row
joined_alert_count(alerts, conversations) ==
    alerts * (IF conversations = 0 THEN 1 ELSE conversations)

\* SELECT cp.*, COUNT(ra.id) as active_alerts (last_analysis, a timestamp, is
\* left out)
high_risk_row(database, profile) ==
    profile @@
    [active_alerts |->
         joined_alert_count(
             Cardinality(unresolved_alerts(database.risk_alerts, profile.customer_id)),
             Cardinality(rows_where(database.conversations, profile.customer_id)))]

\* WHERE cp.churn_risk > ?
above_threshold(churn_risk, threshold) == churn_risk > threshold

get_high_risk_customers(database, threshold) ==
    { high_risk_row(database, database.customer_profiles[k]) :
        k \in { j \in 1..Len(database.customer_profiles) :
                  above_threshold(database.customer_profiles[j].churn_risk, threshold) } }

\* UPDATE risk_alerts SET resolved = 1, notes = ? WHERE id = ? for every alert
resolve_every_alert(alert, alert_id, notes) == [alert EXCEPT !.resolved = 1, !.notes = notes]

\* UPDATE risk_alerts SET resolved = 1, notes = ? WHERE id = ?
resolved_alert(alert, alert_id, notes) ==
    IF alert.id = alert_id THEN [alert EXCEPT !.resolved = 1, !.notes = notes] ELSE alert

resolve_alert(database, alert_id, notes) ==
    [database EXCEPT
        !.risk_alerts = [k \in 1..Len(database.risk_alerts) |->
                            resolved_alert(database.risk_alerts[k], alert_id, notes)]]

RECURSIVE sum_of_sentiment(_)
sum_of_sentiment(rows) ==
    IF Len(rows) = 0 THEN 0 ELSE rows[1].sentiment_score + sum_of_sentiment(Tail(rows))

\* round(AVG(sentiment_score) or 0, 2), in hundredths
average_sentiment(rows) ==
    IF Len(rows) = 0 THEN 0 ELSE RoundDiv(sum_of_sentiment(rows), Len(rows))

get_statistics(database) ==
    [total_customers |->
         Cardinality({ database.conversations[k].customer_id :
                         k \in 1..Len(database.conversations) }),
     customers_at_risk |->
         Cardinality({ k \in 1..Len(database.customer_profiles) :
                         database.customer_profiles[k].churn_risk > 70 }),   \* > 0.7
     active_alerts |->
         Cardinality({ k \in 1..Len(database.risk_alerts) :
                         database.risk_alerts[k].resolved = 0 }),
     average_sentiment |-> average_sentiment(database.conversations)]

(***************************************************************************)
(* call_tool (mcp_server.py).  A request is a tool name and an arguments   *)
(* dict; an argument value for 'messages' is a JSON array or some other    *)
(* JSON value (here: a string).  The response is the value whose           *)
(* json.dumps text is sent back.                                           *)
(***************************************************************************)
Array(items) == [type |-> "list", items |-> items]
Scalar(s) == [type |-> "str", items |-> s]
Number(n) == [type |-> "number", items |-> n]

\* arguments.get(key, default)
arguments_get(arguments, key, default) ==
    IF key \in DOMAIN arguments THEN arguments[key] ELSE default

\* the test without `not messages`
not_a_list(value) == value.type # "list"

\* not messages or not isinstance(messages, list)
invalid_messages(value) == Len(value.items) = 0 \/ value.type # "list"

messages_error == "Missing or invalid 'messages' parameter (must be non-empty array)"
customer_id_error == "Missing 'customer_id' parameter"

\* if context_type not in ["customer", "employee", "email"]: context_type = "customer"
effective_context(context_type) ==
    IF context_type \in {"customer", "employee", "email"} THEN context_type ELSE "customer"

ToolMessages == <<
    <<Str(TextChurn, 0)>>,
    <<Other(42)>>,
    <<Str(SpecScenarioNegative, -80), Dict({"text", "timestamp"}, TextResolved, "2025-11-27 10:00", 40)>> >>

\* hash(str(messages)): an integer that depends on the process's hash seed
\* and tells different texts apart
hash_str(msgs, seed) ==
    LET k == IF \E j \in 1..Len(ToolMessages) : ToolMessages[j] = msgs
             THEN CHOOSE j \in 1..Len(ToolMessages) : ToolMessages[j] = msgs
             ELSE 0
    IN k * (MaxSeed + 1) + seed

\* arguments.get("customer_id", f"customer_{hash(str(messages))}")
customer_of(arguments, msgs, seed) ==
    arguments_get(arguments, "customer_id", "customer_" \o ToString(hash_str(msgs, seed)))

error_response(msg) == [error |-> msg]

\* what call_tool leaves behind: the response and the database
served(response, database) == [response |-> response, db |-> database]

\* the component's result is stored and returned, its exception reported
analysis_served(name, database, customer_id, saved_context, msgs, res) ==
    IF "raised" \in DOMAIN res
    THEN served(error_response("Error in tool " \o name \o ": " \o res.message), database)
    ELSE served(res, save_analysis(database, customer_id, saved_context, msgs, res))

analysis_of_messages(name, arguments, database, seed, msgs, context_type) ==
    analysis_served(name, database, customer_of(arguments, msgs, seed),
        IF name = "analyze_sentiment_evolution" THEN "conversation" ELSE context_type,
        msgs,
        IF name = "analyze_sentiment_evolution" THEN analyze_evolution(msgs)
        ELSE IF name = "detect_risk_signals" THEN detect_signals(msgs, context_type, seed)
        ELSE predict_action(msgs, context_type))

analysis_of_value(name, arguments, database, seed, value) ==
    IF invalid_messages(value)
    THEN served(error_response(messages_error), database)
    ELSE analysis_of_messages(name, arguments, database, seed, value.items,
             effective_context(arguments_get(arguments, "context_type", "customer")))

\* the three analysis tools
analysis_tool(name, arguments, database, seed) ==
    analysis_of_value(name, arguments, database, seed,
                      arguments_get(arguments, "messages", Array(<<>>)))

\* analysis = {...} built from the parameters
analysis_of_arguments(arguments) ==
    [current_sentiment |-> arguments_get(arguments, "sentiment_score", 5000),
     trend |-> arguments_get(arguments, "trend", "STABLE"),
     risk_level |-> arguments_get(arguments, "risk_level", "MEDIUM"),
     predicted_action |-> arguments_get(arguments, "predicted_action", "UNKNOWN"),
     confidence |-> arguments_get(arguments, "confidence", 50)]

save_served(customer_id, msgs, after) ==
    served([success |-> TRUE,
            analysis_id |-> Len(after.conversations),
            customer_id |-> customer_id,
            message |-> "Analysis saved for " \o customer_id \o " with "
                        \o ToString(Len(msgs)) \o " messages"],
           after)

\* the save_analysis tool storing the analysis before it looks at `messages`
save_of_value_storing_first(arguments, database, customer_id, value) ==
    IF customer_id = ""
    THEN served(error_response(customer_id_error), database)
    ELSE IF invalid_messages(value)
    THEN served(error_response(messages_error),
                save_analysis(database, customer_id,
                              effective_context(arguments_get(arguments, "context_type", "customer")),
                              <<>>, analysis_of_arguments(arguments)))
    ELSE save_served(customer_id, value.items,
             save_analysis(database, customer_id,
                           effective_context(arguments_get(arguments, "context_type", "customer")),
                           value.items, analysis_of_arguments(arguments)))

save_of_value(arguments, database, customer_id, value) ==
    IF customer_id = ""
    THEN served(error_response(customer_id_error), database)
    ELSE IF invalid_messages(value)
    THEN served(error_response(messages_error), database)
    ELSE save_served(customer_id, value.items,
             save_analysis(database, customer_id,
                           effective_context(arguments_get(arguments, "context_type", "customer")),
                           value.items, analysis_of_arguments(arguments)))

\* the save_analysis tool
save_tool(arguments, database) ==
    save_of_value(arguments, database, arguments_get(arguments, "customer_id", ""),
                  arguments_get(arguments, "messages", Array(<<>>)))

\* the get_customer_history tool
history_of_customer(database, customer_id) ==
    IF customer_id = ""
    THEN served(error_response(customer_id_error), database)
    ELSE served(get_customer_history(database, customer_id), database)

history_tool(arguments, database) ==
    history_of_customer(database, arguments_get(arguments, "customer_id", ""))

\* the response of get_high_risk_customers
high_risk_served(rows, threshold, database) ==
    served([high_risk_customers |-> rows, count |-> Cardinality(rows),
            threshold |-> threshold],
           database)

\* float(arguments.get("threshold", 0.75)): a number (in hundredths), or a
\* string that float() does not accept
high_risk_of_threshold(database, threshold) ==
    IF threshold.type = "number"
    THEN high_risk_served(get_high_risk_customers(database, threshold.items),
                          threshold.items, database)
    ELSE served(error_response("Error in tool get_high_risk_customers: "
                                   \o "could not convert string to float: '"
                                   \o threshold.items \o "'"),
                database)

high_risk_tool(arguments, database) ==
    high_risk_of_threshold(database, arguments_get(arguments, "threshold", Number(75)))

call_tool(name, arguments, database, seed) ==
    IF name \in {"analyze_sentiment_evolution", "detect_risk_signals", "predict_next_action"}
    THEN analysis_tool(name, arguments, database, seed)
    ELSE IF name = "get_customer_history" THEN history_tool(arguments, database)
    ELSE IF name = "get_high_risk_customers" THEN high_risk_tool(arguments, database)
    ELSE IF name = "get_database_statistics" THEN served(get_statistics(database), database)
    ELSE IF name = "save_analysis" THEN save_tool(arguments, database)
    ELSE served(error_response("Unknown tool: " \o name), database)

(***************************************************************************)
(* SpecServer: the server process answers tool calls one after another     *)
(* against one database.                                                   *)
(***************************************************************************)
NoArguments == [x \in {} |-> x]

MessageArguments ==
    { NoArguments, [messages |-> Array(<<>>)], [messages |-> Scalar("hello")],
      [messages |-> Array(ToolMessages[1])], [messages |-> Array(ToolMessages[2])],
      [messages |-> Array(ToolMessages[3])] }

OtherArguments == { NoArguments, [context_type |-> "investor", customer_id |-> "ACME"] }

AnalysisRequests == { m @@ o : m \in MessageArguments, o \in OtherArguments }

SaveRequests ==
    { [messages |-> Array(ToolMessages[1])],
      [customer_id |-> "ACME"],
      [customer_id |-> "ACME", messages |-> Array(ToolMessages[1])],
      [customer_id |-> "ACME", messages |-> Array(ToolMessages[1]),
       context_type |-> "employee", confidence |-> 90, trend |-> "DECLINING",
       sentiment_score |-> 3000, risk_level |-> "HIGH", predicted_action |-> "CHURN"],
      [customer_id |-> "ACME", messages |-> Array(ToolMessages[1]), confidence |-> 70],
      [customer_id |-> "ACME", messages |-> Array(ToolMessages[1]), confidence |-> 85,
       sentiment_score |-> 8000] }

HistoryRequests == { NoArguments, [customer_id |-> "ACME"] }

HighRiskRequests ==
    { NoArguments, [threshold |-> Number(50)], [threshold |-> Scalar("high")] }

InitServer ==
    /\ op = "init"
    /\ messages = <<>>
    /\ context = "general"
    /\ result = NoValue
    /\ hashseed \in 0..MaxSeed
    /\ prev = NoValue
    /\ scores = <<>>
    /\ db = _init_database
    /\ request = [id |-> 0]
    /\ tables = NoValue
    /\ frames = NoValue
    /\ final_scores = NoValue

Answer(name, arguments, answer) ==
    /\ result' = answer.response
    /\ db' = answer.db
    /\ op' = name
    /\ request' = [id |-> request.id + 1, name |-> name, arguments |-> arguments]
    /\ UNCHANGED <<messages, context, hashseed, prev, scores, tables, frames, final_scores>>

\* one request is read, answered by call_tool, and its response written
Serve(name, arguments) ==
    /\ request.id < MaxCalls
    /\ Answer(name, arguments, call_tool(name, arguments, db, hashseed))

CallAnalyze == \E arguments \in AnalysisRequests : Serve("analyze_sentiment_evolution", arguments)
CallDetect == \E arguments \in AnalysisRequests : Serve("detect_risk_signals", arguments)
CallPredict == \E arguments \in AnalysisRequests : Serve("predict_next_action", arguments)
CallSaveAnalysis == \E arguments \in SaveRequests : Serve("save_analysis", arguments)
CallHistory == \E arguments \in HistoryRequests : Serve("get_customer_history", arguments)
CallHighRisk == \E arguments \in HighRiskRequests : Serve("get_high_risk_customers", arguments)
CallStatistics == Serve("get_database_statistics", NoArguments)
CallUnknown == Serve("summarize", NoArguments)

NextServer ==
    \/ CallAnalyze
    \/ CallDetect
    \/ CallPredict
    \/ CallSaveAnalysis
    \/ CallHistory
    \/ CallHighRisk
    \/ CallStatistics
    \/ CallUnknown

SpecServer == InitServer /\ [][NextServer]_vars

(***************************************************************************)
(* Properties of one call (Spec).                                          *)
(***************************************************************************)
Returned == "raised" \notin DOMAIN result

\* C1: every sentiment_score of the timeline of a non-empty analysis, and
\* its current_sentiment, lies in [0,100] (0..10000 hundredths), whatever
\* the lexicon hits and the polarity estimate of the texts.
C1_ScoreWithinRange ==
    (op = "analyze_evolution" /\ Len(messages) > 0) =>
        /\ Len(result.timeline) = Len(messages)
        /\ \A i \in 1..Len(result.timeline) :
               result.timeline[i].sentiment_score \in 0..10000
        /\ result.current_sentiment \in 0..10000
        /\ result.initial_sentiment \in 0..10000

\* an analysis in which the weighted sum of one text leaves [0,100] on the
\* upper side and of another on the lower side
C1_Witness ==
    /\ op = "analyze_evolution"
    /\ \E i \in 1..Len(messages) :
           /\ analyzer_text(messages[i]) # ""
           /\ final_score(analyzer_text(messages[i]), messages[i].pol) > 10000
           /\ result.timeline[i].sentiment_score = 10000
    /\ \E i \in 1..Len(messages) :
           /\ analyzer_text(messages[i]) # ""
           /\ final_score(analyzer_text(messages[i]), messages[i].pol) < 0
           /\ result.timeline[i].sentiment_score = 0

\* C2: for a non-empty list, detect_signals returns every per-message
\* risk_score, total_risk_score and confidence within [0,100], and a
\* predict_action that returns gives confidence within [0,100] and
\* success_rate within [20,95].
C2_OutputsWithinBounds ==
    /\ (op = "detect_signals" /\ Len(messages) > 0) =>
           /\ \A g \in 1..Len(result.signals) : result.signals[g].risk_score \in 0..100
           /\ result.total_risk_score \in 0..100
           /\ result.confidence \in 0..10000
    /\ (op = "predict_action" /\ Len(messages) > 0 /\ Returned) =>
           /\ result.confidence \in 0..10000
           /\ result.success_rate \in 20..95

\* a detection in which a message's weights add up to more than 100 and
\* more than six messages carry signals
C2_Witness ==
    /\ op = "detect_signals"
    /\ Len(result.signals) * 15 > 100
    /\ result.confidence = 10000
    /\ \E g \in 1..Len(result.signals) :
           /\ Len(result.signals[g].signals) = 4
           /\ result.signals[g].risk_score = 100
    /\ result.total_risk_score = 100

\* a prediction whose confidence terms add up to more than 100
C2_WitnessPrediction ==
    /\ op = "predict_action"
    /\ Len(messages) >= 5
    /\ Returned
    /\ result.confidence = 10000
    /\ result.success_rate = 35

\* C3: with an empty message list each operation returns its canonical
\* empty result and raises nothing.
C3_EmptyListCanonical ==
    (op # "init" /\ Len(messages) = 0) =>
        /\ Returned
        /\ op = "analyze_evolution" =>
               /\ result.trend = "unknown"
               /\ result.current_sentiment = 0
               /\ result.initial_sentiment = 0
               /\ result.timeline = <<>>
               /\ result.turning_points = <<>>
               /\ result.message_count = 0
        /\ op = "detect_signals" =>
               /\ result.risk_level = "UNKNOWN"
               /\ result.signals = <<>>
               /\ result.breaking_point = None
        /\ op = "predict_action" => result.action = "UNKNOWN"

C3_Witness ==
    /\ op = "analyze_evolution"
    /\ messages = <<>>
    /\ result.trend = "unknown"

(***************************************************************************)
(* C5: a list with an entry that is neither a str nor a dict is processed  *)
(* by all three operations, the entry read as its str().                   *)
(***************************************************************************)
HasMalformedEntry == \E i \in 1..Len(messages) : messages[i].kind \notin {"str", "dict"}

\* C5 as stated: no operation rejects a list with such an entry.
C5_MalformedNeverRejected ==
    (op # "init" /\ HasMalformedEntry) => Returned

\* C5, what does hold: analyze_evolution and detect_signals return, and
\* score the entry as str(entry).
C5_AnalyzerAndDetectorCoerce ==
    (op \in {"analyze_evolution", "detect_signals"} /\ HasMalformedEntry) =>
        /\ Returned
        /\ op = "analyze_evolution" =>
               \A i \in 1..Len(messages) :
                   messages[i].kind \notin {"str", "dict"} =>
                       result.timeline[i].sentiment_score
                           = _calculate_sentiment(ToString(messages[i].num), messages[i].pol)

\* predict_action raises TypeError on such an entry among the last three
C5_PredictRaises ==
    /\ op = "predict_action"
    /\ HasMalformedEntry
    /\ ~Returned
    /\ result.raised = "TypeError"

(***************************************************************************)
(* C9, C10: the detector's breaking point and risk score.                  *)
(***************************************************************************)
triggers(i) == signal_checks(detector_text(messages[i]))

\* message i sets the breaking point if none is set before it
qualifies(i) ==
    \/ triggers(i).comparison_signal.found
    \/ triggers(i).disengagement_signal.found
    \/ (triggers(i).frustration_signal.found /\ 30 > 30)

\* C9: breaking_point is the 1-based index of the first message with a
\* comparison or disengagement signal (a frustration signal alone
\* contributes 30, which does not exceed 30); it is None when no message
\* qualifies; and once the loop has set it, no later iteration changes it.
C9_BreakingPointFirstQualifying ==
    (op = "detect_signals" /\ Len(messages) > 0) =>
        /\ (\E i \in 1..Len(messages) : qualifies(i)) =>
               /\ result.breaking_point \in 1..Len(messages)
               /\ qualifies(result.breaking_point)
               /\ \A j \in 1..(result.breaking_point - 1) : ~qualifies(j)
        /\ (\A i \in 1..Len(messages) : ~qualifies(i)) => result.breaking_point = None
        /\ \A n \in 1..Len(messages) :
               detect_loop(messages, n).breaking_point # None =>
                   result.breaking_point = detect_loop(messages, n).breaking_point

\* the first message has a frustration signal only, the second sets the
\* breaking point, and a later one qualifies as well
C9_Witness ==
    /\ op = "detect_signals"
    /\ Len(messages) >= 3
    /\ triggers(1).frustration_signal.found
    /\ ~qualifies(1)
    /\ result.breaking_point = 2
    /\ qualifies(3)

\* the weights of the signal types message i triggers, added up
contribution(i) ==
    (IF triggers(i).comparison_signal.found THEN 25 ELSE 0)
    + (IF triggers(i).frustration_signal.found THEN 30 ELSE 0)
    + (IF triggers(i).disengagement_signal.found THEN 35 ELSE 0)
    + (IF triggers(i).price_signal.found THEN 20 ELSE 0)

banding(score) ==
    IF score >= 70 THEN "CRITICAL"
    ELSE IF score >= 50 THEN "HIGH"
    ELSE IF score >= 30 THEN "MEDIUM"
    ELSE "LOW"

\* C10: a message's risk_score is the sum of the weights 25/30/35/20 of the
\* signal types it triggers, capped at 100; total_risk_score is the maximum
\* over the messages (0 if none triggers anything); risk_level is the band
\* of that maximum; a lone message with a disengagement and a comparison
\* signal scores 60 and HIGH.
C10_RiskIsMaximumOfContributions ==
    (op = "detect_signals" /\ Len(messages) > 0) =>
        LET with_signals == { i \in 1..Len(messages) : contribution(i) > 0 }
        IN /\ Len(result.signals) = Cardinality(with_signals)
           /\ \A g \in 1..Len(result.signals) :
                  /\ result.signals[g].message_index \in with_signals
                  /\ result.signals[g].risk_score
                         = Min(100, contribution(result.signals[g].message_index))
                  /\ \A h \in 1..(g - 1) :
                         result.signals[h].message_index < result.signals[g].message_index
           /\ \A i \in with_signals : result.total_risk_score >= Min(100, contribution(i))
           /\ \/ \E i \in with_signals : result.total_risk_score = Min(100, contribution(i))
              \/ with_signals = {} /\ result.total_risk_score = 0
           /\ result.risk_level = banding(result.total_risk_score)
           /\ (Len(messages) = 1 /\ triggers(1).disengagement_signal.found
                 /\ triggers(1).comparison_signal.found
                 /\ ~triggers(1).frustration_signal.found
                 /\ ~triggers(1).price_signal.found) =>
                  (result.total_risk_score = 60 /\ result.risk_level = "HIGH")

\* two messages with different contributions: the total is the larger one
C10_Witness ==
    /\ op = "detect_signals"
    /\ Len(result.signals) = 2
    /\ result.signals[1].risk_score = 60
    /\ result.signals[2].risk_score = 30
    /\ result.total_risk_score = 60
    /\ result.risk_level = "HIGH"

(***************************************************************************)
(* C6: the same call made twice (SpecRepeat).                              *)
(***************************************************************************)
\* C6 as stated: the second call returns what the first returned,
\* key_phrases included.
C6_RepeatedCallIdentical ==
    prev # NoValue => result = prev

\* C6, what does hold: the analyzer and the predictor repeat themselves,
\* and the detector does in everything but key_phrases, of which it keeps
\* the number.
C6_IdenticalButKeyPhrases ==
    prev # NoValue =>
        IF op = "detect_signals"
        THEN /\ [f \in DOMAIN result \ {"key_phrases"} |-> result[f]]
                  = [f \in DOMAIN prev \ {"key_phrases"} |-> prev[f]]
             /\ Len(result.key_phrases) = Len(prev.key_phrases)
        ELSE result = prev

\* a second detection after a restart that keeps other key phrases
C6_KeyPhrasesDiffer ==
    /\ op = "detect_signals"
    /\ prev # NoValue
    /\ Len(prev.key_phrases) = 5
    /\ { result.key_phrases[j] : j \in 1..5 } # { prev.key_phrases[j] : j \in 1..5 }

(***************************************************************************)
(* C7, C8: trend and turning points of a score sequence (SpecTrajectory).  *)
(***************************************************************************)
first_half_sum == Sum(SubSeq(scores, 1, Len(scores) \div 2))
second_half_sum == Sum(SubSeq(scores, Len(scores) \div 2 + 1, Len(scores)))
first_half_len == Len(scores) \div 2
second_half_len == Len(scores) - Len(scores) \div 2

\* (mean of the second half - mean of the first half) compared with
\* `points` points, both sides multiplied by the two lengths
mean_diff_above(points) ==
    second_half_sum * first_half_len - first_half_sum * second_half_len
        > points * 100 * first_half_len * second_half_len
mean_diff_below(points) ==
    second_half_sum * first_half_len - first_half_sum * second_half_len
        < points * 100 * first_half_len * second_half_len
mean_diff_is(points) == ~mean_diff_above(points) /\ ~mean_diff_below(points)

turning_pairs == { k \in 1..(Len(scores) - 1) : Abs(scores[k + 1] - scores[k]) > 2000 }

\* C8: there is one turning point per consecutive pair of scores whose
\* absolute difference is strictly greater than 20 and none for any other
\* pair, in ascending order; its severity is CRITICAL for a difference
\* > 40, HIGH for > 30 and <= 40, MEDIUM otherwise; its from and to states
\* are the bands of the earlier and the later score.
C8_TurningPointsStrictlyAbove20 ==
    op = "_find_turning_points" =>
        LET tps == result.turning_points
        IN /\ Len(tps) = Cardinality(turning_pairs)
           /\ \A j \in 1..Len(tps) :
                  LET k == tps[j].index
                      change == Abs(scores[k + 1] - scores[k])
                  IN /\ k \in turning_pairs
                     /\ \A h \in 1..(j - 1) : tps[h].index < k
                     /\ tps[j].change_magnitude = change
                     /\ tps[j].severity =
                            (IF change > 4000 THEN "CRITICAL"
                             ELSE IF change > 3000 /\ change <= 4000 THEN "HIGH"
                             ELSE "MEDIUM")
                     /\ tps[j].from_state = _sentiment_state(scores[k])
                     /\ tps[j].to_state = _sentiment_state(scores[k + 1])

\* a pair exactly 20 apart that is no turning point, next to a pair a
\* hundredth further apart that is one
C8_Witness ==
    /\ op = "_find_turning_points"
    /\ \E k \in 1..(Len(scores) - 1) :
           /\ Abs(scores[k + 1] - scores[k]) = 2000
           /\ \A j \in 1..Len(result.turning_points) : result.turning_points[j].index # k
    /\ \E j \in 1..Len(result.turning_points) :
           result.turning_points[j].change_magnitude = 2001

(***************************************************************************)
(* C4: a tool call whose messages array has zero entries (SpecServer).     *)
(***************************************************************************)
AnalysisTools == { "analyze_sentiment_evolution", "detect_risk_signals", "predict_next_action" }

ZeroMessages(req) ==
    /\ "name" \in DOMAIN req
    /\ req.name \in AnalysisTools
    /\ "messages" \in DOMAIN req.arguments
    /\ req.arguments.messages = Array(<<>>)

\* C4 as stated: such a request is answered with the canonical empty
\* result of the operation, not with an error response.
C4_ZeroMessagesAnsweredCanonically ==
    ZeroMessages(request) =>
        /\ "error" \notin DOMAIN result
        /\ op = "analyze_sentiment_evolution" => result.trend = "unknown"
        /\ op = "detect_risk_signals" => result.risk_level = "UNKNOWN"
        /\ op = "predict_next_action" => result.action = "UNKNOWN"

\* C4, amended: such a request is answered with the error response
\* "Missing or invalid 'messages' parameter (must be non-empty array)",
\* and nothing is analysed or stored for it.
C4_ZeroMessagesRejected ==
    [][ZeroMessages(request') =>
          /\ result' = [error |-> "Missing or invalid 'messages' parameter (must be non-empty array)"]
          /\ db' = db]_vars

\* a zero-message request answered after a request that stored a record
C4_Witness ==
    /\ ZeroMessages(request)
    /\ "error" \in DOMAIN result
    /\ Len(db.conversations) = 1

(***************************************************************************)
(* C11, C12: the detector's recommendations and the context tag (Spec).    *)
(***************************************************************************)
counter_competition == "Counter competitive threats with unique value proposition"
review_pricing == "Review pricing strategy and alternative plans"

comparison_fired == \E i \in 1..Len(messages) : triggers(i).comparison_signal.found
price_fired == \E i \in 1..Len(messages) : triggers(i).price_signal.found

Recommended(text) ==
    \E j \in 1..Len(result.recommendations) : result.recommendations[j] = text

\* C11 as stated: when a comparison signal fired the recommendations hold
\* the counter-competition entry, when a price signal fired the
\* pricing-review entry (unless the five places are taken by the clauses
\* that come first), and without the signal the entry is absent.
C11_SignalTypeRecommendations ==
    (op = "detect_signals" /\ Len(messages) > 0) =>
        /\ (comparison_fired /\ Len(result.recommendations) < 5) => Recommended(counter_competition)
        /\ (price_fired /\ Len(result.recommendations) < 5) => Recommended(review_pricing)
        /\ ~comparison_fired => ~Recommended(counter_competition)
        /\ ~price_fired => ~Recommended(review_pricing)

\* C11, what does hold: neither entry is ever recommended, whatever fired.
C11_NeverRecommended ==
    (op = "detect_signals" /\ Len(messages) > 0) =>
        /\ ~Recommended(counter_competition)
        /\ ~Recommended(review_pricing)

\* a detection in which both signal types fired and nothing is recommended
C11_FiredButAbsent ==
    /\ op = "detect_signals"
    /\ comparison_fired
    /\ price_fired
    /\ result.recommendations = <<>>

WithoutRecommendations(r) == [f \in DOMAIN r \ {"recommendations"} |-> r[f]]

\* C12: for the same messages (in the same process) every context value
\* gives the same signals, risk_level, confidence, breaking_point,
\* key_phrases and total_risk_score; a context other than customer,
\* employee and investor gives the recommendations of 'general'.
C12_ContextOnlyInRecommendations ==
    (op = "detect_signals" /\ Len(messages) > 0) =>
        /\ \A c \in Contexts \ {context} :
               WithoutRecommendations(detect_signals(messages, c, hashseed))
                   = WithoutRecommendations(result)
        /\ context \notin {"customer", "employee", "investor"} =>
               result.recommendations
                   = detect_signals(messages, "general", hashseed).recommendations

\* an 'email' detection at a risk level where the customer, employee and
\* investor contexts each recommend something else
C12_Witness ==
    /\ op = "detect_signals"
    /\ context = "email"
    /\ result.risk_level = "CRITICAL"
    /\ Len(result.recommendations) = 2
    /\ \A c \in {"customer", "employee", "investor"} :
           detect_signals(messages, c, hashseed).recommendations # result.recommendations

(***************************************************************************)
(* C13: the predicted action (Spec).                                       *)
(***************************************************************************)
final_text_of(msgs) ==
    lower(join([j \in 1..Len(final_messages(msgs)) |-> final_part(final_messages(msgs)[j])]))

first_match(churn_score, resolution_score, sentiment, trend) ==
    IF churn_score > 50 /\ sentiment < 4000 THEN "LIKELY_CHURN"
    ELSE IF resolution_score > 50 /\ trend = "IMPROVING" THEN "LIKELY_RESOLUTION"
    ELSE IF sentiment > 5000 /\ trend # "DECLINING" THEN "LIKELY_STAY"
    ELSE IF sentiment < 3000 /\ trend = "DECLINING" THEN "ESCALATION_NEEDED"
    ELSE "MONITOR_CLOSELY"

rule_inputs(text, sentiment, trend) ==
    [churn_score |-> _score_churn_risk(text),
     resolution_score |-> _score_resolution_likelihood(text),
     sentiment |-> sentiment,
     trend |-> trend]

action_follows_rules(in, action) ==
    /\ action = first_match(in.churn_score, in.resolution_score, in.sentiment, in.trend)
    /\ \A c \in Contexts :
           _predict_primary_action(in.sentiment, in.trend, in.churn_score,
                                   in.resolution_score, c) = action

\* C13: the action of a prediction is the first match of: churn_score > 50
\* and sentiment < 40, LIKELY_CHURN; resolution_score > 50 and trend
\* IMPROVING, LIKELY_RESOLUTION; sentiment > 50 and trend not DECLINING,
\* LIKELY_STAY; sentiment < 30 and trend DECLINING, ESCALATION_NEEDED;
\* otherwise MONITOR_CLOSELY; and it is the same for every context.
C13_ActionByFirstMatch ==
    (op = "predict_action" /\ Len(messages) > 0 /\ Returned) =>
        action_follows_rules(rule_inputs(final_text_of(messages),
                                         result.sentiment_trajectory.current,
                                         result.sentiment_trajectory.trend),
                             result.action)

\* a prediction in which the first and the fourth rule both match
C13_Witness ==
    /\ op = "predict_action"
    /\ Returned
    /\ result.action = "LIKELY_CHURN"
    /\ result.sentiment_trajectory.current < 3000
    /\ result.sentiment_trajectory.trend = "DECLINING"

\* the four other actions are predicted as well
C13_AllActions ==
    [a \in {"LIKELY_RESOLUTION", "LIKELY_STAY", "ESCALATION_NEEDED", "MONITOR_CLOSELY"} |->
        op = "predict_action" /\ Returned /\ Len(messages) > 0 /\ result.action = a]

(***************************************************************************)
(* C14, C15: what save_analysis stores (SpecServer).                       *)
(***************************************************************************)
Saved == Len(db'.conversations) = Len(db.conversations) + 1

last_row(database) == database.conversations[Len(database.conversations)]

alert_for(row, alerts) ==
    IF row.confidence > 70
    THEN /\ Len(alerts) = Len(db.risk_alerts) + 1
         /\ SubSeq(alerts, 1, Len(db.risk_alerts)) = db.risk_alerts
         /\ alerts[Len(alerts)].customer_id = row.customer_id
         /\ alerts[Len(alerts)].severity = (IF row.confidence > 85 THEN "HIGH" ELSE "MEDIUM")
    ELSE alerts = db.risk_alerts

\* C14: a save adds one alert for the customer exactly when the saved
\* confidence is strictly above 0.7, HIGH when strictly above 0.85 and
\* MEDIUM otherwise; a result without a confidence field is stored with
\* confidence 0 and adds no alert; a call that saves nothing adds none.
C14_AlertExactlyAboveThreshold ==
    [][ /\ Saved => alert_for(last_row(db'), db'.risk_alerts)
        /\ ~Saved => db'.risk_alerts = db.risk_alerts
        /\ (Saved /\ op' = "analyze_sentiment_evolution") =>
               /\ last_row(db').confidence = 0
               /\ db'.risk_alerts = db.risk_alerts ]_vars

\* a save with confidence exactly 0.7 (no alert) followed by one with
\* confidence exactly 0.85 (one MEDIUM alert)
C14_Witness ==
    /\ Len(db.conversations) = 2
    /\ db.conversations[1].confidence = 70
    /\ db.conversations[2].confidence = 85
    /\ Len(db.risk_alerts) = 1
    /\ db.risk_alerts[1].severity = "MEDIUM"

\* a HIGH alert, and an analysis stored without a confidence field
C14_WitnessHigh ==
    /\ Len(db.conversations) = 2
    /\ db.conversations[1].confidence = 0
    /\ db.conversations[2].confidence = 90
    /\ Len(db.risk_alerts) = 1
    /\ db.risk_alerts[1].severity = "HIGH"

rows_of(customer_id) ==
    {i \in 1..Len(db.conversations) : db.conversations[i].customer_id = customer_id}

RECURSIVE sentiment_total(_, _)
sentiment_total(rows, n) ==
    IF n = 0 THEN 0
    ELSE sentiment_total(rows, n - 1)
             + (IF n \in rows THEN db.conversations[n].sentiment_score ELSE 0)

profile_matches(profile, rows) ==
    /\ profile.total_interactions = Cardinality(rows)
    /\ profile.lifetime_sentiment.num * Cardinality(rows)
           = sentiment_total(rows, Len(db.conversations)) * profile.lifetime_sentiment.den

C15_RowsOnlyAppended ==
    [][ \/ db'.conversations = db.conversations
        \/ /\ Saved
           /\ SubSeq(db'.conversations, 1, Len(db.conversations)) = db.conversations ]_vars

Invocations == {1, 2}

Operations == {"analyze_evolution", "detect_signals", "predict_action"}

ConcurrentEntries == {Str(TextAllFour, -100), Str(TextPraise, 100)}

ConcurrentLists ==
    UNION {[1..n -> ConcurrentEntries] : n \in 1..MaxMsgs}

\* the attributes assigned in the three __init__ methods
constructed_tables ==
    [positive_words |-> positive_words,
     negative_words |-> negative_words,
     comparison_keywords |-> comparison_keywords,
     frustration_keywords |-> frustration_keywords,
     disengagement_keywords |-> disengagement_keywords,
     price_keywords |-> price_keywords,
     churn_indicators |-> churn_indicators,
     resolution_indicators |-> resolution_indicators]

\* timeline = [] ... / signals = [] ... : the locals a call starts with
locals_init == [i |-> 0, timeline |-> <<>>, detect |-> detect_locals_init]

Frames ==
    [operation : Operations, messages : ConcurrentLists, context : {"customer"},
     locals : {locals_init}, returned : {NoValue}]

InitConcurrent ==
    /\ op = "init"
    /\ messages = <<>>
    /\ context = "general"
    /\ result = NoValue
    /\ hashseed \in 0..MaxSeed
    /\ prev = NoValue
    /\ scores = <<>>
    /\ db = NoValue
    /\ request = NoValue
    /\ tables = constructed_tables
    /\ frames \in [Invocations -> Frames]
    /\ final_scores = NoValue

\* the accumulators kept in one place for all calls, as attributes would be
instance_locals(fs, t) == fs[1].locals

\* the accumulators of a call are local variables of that call
locals_of(fs, t) == fs[t].locals

Running(t) == frames[t].returned = NoValue

InLoop(t) == Running(t) /\ locals_of(frames, t).i < Len(frames[t].messages)

AfterLoop(t) == Running(t) /\ locals_of(frames, t).i = Len(frames[t].messages)

Store(t, locals) ==
    /\ frames' = [frames EXCEPT ![t].locals = locals]
    /\ UNCHANGED <<op, messages, context, result, hashseed, prev, scores, db, request, tables, final_scores>>

Return(t, value) ==
    /\ frames' = [frames EXCEPT ![t].returned = value]
    /\ UNCHANGED <<op, messages, context, result, hashseed, prev, scores, db, request, tables, final_scores>>

analyze_iteration(locals, msgs) ==
    [locals EXCEPT !.i = locals.i + 1,
                   !.timeline = Append(locals.timeline,
                                       timeline_entry(msgs[locals.i + 1], locals.i + 1))]

detect_iteration(locals, msgs) ==
    [locals EXCEPT !.i = locals.i + 1,
                   !.detect = detect_step(locals.detect, msgs[locals.i + 1], locals.i + 1)]

\* one pass of `for i, msg in enumerate(messages)` in analyze_evolution,
\* called directly or from predict_action
AnalyzeIteration(t) ==
    /\ frames[t].operation \in {"analyze_evolution", "predict_action"}
    /\ InLoop(t)
    /\ Store(t, analyze_iteration(locals_of(frames, t), frames[t].messages))

AnalyzeReturn(t) ==
    /\ frames[t].operation = "analyze_evolution"
    /\ AfterLoop(t)
    /\ Return(t, analysis_of_timeline(locals_of(frames, t).timeline))

DetectIteration(t) ==
    /\ frames[t].operation = "detect_signals"
    /\ InLoop(t)
    /\ Store(t, detect_iteration(locals_of(frames, t), frames[t].messages))

DetectReturn(t) ==
    /\ frames[t].operation = "detect_signals"
    /\ AfterLoop(t)
    /\ Return(t, signals_of(locals_of(frames, t).detect, frames[t].context, hashseed))

PredictReturn(t) ==
    /\ frames[t].operation = "predict_action"
    /\ AfterLoop(t)
    /\ Return(t, prediction_of(analysis_of_timeline(locals_of(frames, t).timeline),
                               frames[t].context, final_messages(frames[t].messages)))

NextConcurrent ==
    \E t \in Invocations :
        \/ AnalyzeIteration(t)
        \/ AnalyzeReturn(t)
        \/ DetectIteration(t)
        \/ DetectReturn(t)
        \/ PredictReturn(t)

SpecConcurrent == InitConcurrent /\ [][NextConcurrent]_vars

(***************************************************************************)
(* C16 (SpecConcurrent).                                                   *)
(***************************************************************************)
\* C16: a call that has returned, whatever the other call did in between,
\* returned what the same call returns when run alone; and the tables of
\* the instances are as constructed in every state.
C16_InterleavedAsAlone ==
    /\ tables = constructed_tables
    /\ \A t \in Invocations :
           ~Running(t) =>
               frames[t].returned
                   = call(frames[t].operation, frames[t].messages, frames[t].context, hashseed)

\* both calls have returned, on different inputs, the first one having
\* returned while the second was in the middle of its loop
C16_Witness ==
    /\ ~Running(1)
    /\ ~Running(2)
    /\ frames[1].messages # frames[2].messages
    /\ frames[1].operation = "detect_signals"
    /\ frames[2].operation = "predict_action"
    /\ Len(frames[1].messages) = 2
    /\ Len(frames[2].messages) = 2

(***************************************************************************)
(* C17, C18: the analysis against its timeline and its input (Spec).       *)
(***************************************************************************)
Analysed == op = "analyze_evolution" /\ Len(messages) > 0

timeline_scores(timeline) == [k \in 1..Len(timeline) |-> timeline[k].sentiment_score]

\* C17: in a non-empty analysis current_sentiment is the score of the last
\* timeline entry, initial_sentiment that of the first, and trend is the
\* trend classification of the sequence of scores.
C17_SummaryMatchesTimeline ==
    Analysed =>
        /\ result.current_sentiment = result.timeline[Len(result.timeline)].sentiment_score
        /\ result.initial_sentiment = result.timeline[1].sentiment_score
        /\ result.trend = _calculate_trend(timeline_scores(result.timeline))

\* an analysis of three or more messages that ends below where it began
C17_Witness ==
    /\ Analysed
    /\ Len(result.timeline) >= 3
    /\ result.current_sentiment < result.initial_sentiment
    /\ result.trend = "DECLINING"

\* C18: the timeline has one entry per message, in input order; the k-th
\* entry has message_index k, the score and the (shortened) text of the
\* k-th message; message_count is the length of the input.
C18_TimelineMirrorsInput ==
    Analysed =>
        /\ Len(result.timeline) = Len(messages)
        /\ result.message_count = Len(messages)
        /\ \A k \in 1..Len(messages) :
               /\ result.timeline[k].message_index = k
               /\ result.timeline[k].sentiment_score
                      = _calculate_sentiment(analyzer_text(messages[k]), messages[k].pol)
               /\ result.timeline[k].text = text_preview(analyzer_text(messages[k]))

\* an analysis of a list that repeats a message and ends with another one
C18_Witness ==
    /\ Analysed
    /\ Len(messages) >= 3
    /\ messages[1] = messages[2]
    /\ messages[Len(messages)] # messages[1]
    /\ Len(result.timeline) = Len(messages)
    /\ result.timeline[1].sentiment_score # result.timeline[Len(messages)].sentiment_score

(***************************************************************************)
(* C19, C20: the score of a single message against its wording (Spec).     *)
(***************************************************************************)
\* the numbers of lexicon terms found in each text, evaluated once
LexiconHits ==
    [t \in KnownTexts |-> [positive |-> positive_count(lower(t)),
                           negative |-> negative_count(lower(t))]]

SingleStr == op = "analyze_evolution" /\ Len(messages) = 1 /\ messages[1].kind = "str"

never_increases(text, other, score, other_score) ==
    (/\ LexiconHits[other].positive = LexiconHits[text].positive
     /\ LexiconHits[other].negative >= LexiconHits[text].negative) => other_score <= score

never_decreases(text, other, score, other_score) ==
    (/\ LexiconHits[other].negative = LexiconHits[text].negative
     /\ LexiconHits[other].positive >= LexiconHits[text].positive) => other_score >= score

\* C19: against the score of the analysed (non-empty) text, every other
\* text with the same number of positive terms and at least as many
\* negative terms scores no higher at the same polarity, and every other
\* text with the same number of negative terms and at least as many
\* positive terms scores no lower.
C19_MonotoneInTermCounts ==
    (SingleStr /\ messages[1].text # "") =>
        \A other \in Texts \ {""} :
            /\ never_increases(messages[1].text, other, result.current_sentiment,
                               _calculate_sentiment(other, messages[1].pol))
            /\ never_decreases(messages[1].text, other, result.current_sentiment,
                               _calculate_sentiment(other, messages[1].pol))

\* one negative term scores 43 at polarity 0; two, with the same (zero)
\* positive terms, score lower; no negative term and two positive score higher
C19_Witness ==
    /\ SingleStr
    /\ messages[1] = Str(TextSlowCost, 0)
    /\ LexiconHits[TextSlowCost] = [positive |-> 0, negative |-> 1]
    /\ LexiconHits[SpecScenarioNegative] = [positive |-> 0, negative |-> 2]
    /\ result.current_sentiment = 4300
    /\ _calculate_sentiment(SpecScenarioNegative, 0) < 4300
    /\ _calculate_sentiment(TextNeutral, 0) > 4300

\* the band a wording indicates
in_band(hits, score) ==
    /\ (hits.positive > 0 /\ hits.negative = 0) => (score >= 6000 /\ score <= 10000)
    /\ (hits.negative > 0 /\ hits.positive = 0) => score < 4000
    /\ (hits.positive = 0 /\ hits.negative = 0) => (score >= 4000 /\ score <= 6000)

\* C20 as stated: a single message with positive terms only is scored in
\* [60,100], one with negative terms only below 40, one without lexicon
\* terms in [40,60].
C20_SingleMessageBands ==
    (op = "analyze_evolution" /\ Len(messages) = 1 /\ messages[1].kind # "int") =>
        in_band(LexiconHits[messages[1].text], result.current_sentiment)

\* C20, what does hold: the positive band needs a polarity estimate of at
\* least 0.2 (or a second positive term and at least -0.27), the negative
\* band an estimate below -0.2 (or a second negative term and below 0.27),
\* the neutral band an estimate within -0.66..0.66; and the text must be
\* under the key 'text' if the message is a dict.
C20_BandsGivenPolarity ==
    (SingleStr /\ messages[1].text # "") =>
        /\ (/\ LexiconHits[messages[1].text].positive > 0
            /\ LexiconHits[messages[1].text].negative = 0
            /\ messages[1].pol >= 20) => result.current_sentiment >= 6000
        /\ (/\ LexiconHits[messages[1].text].negative > 0
            /\ LexiconHits[messages[1].text].positive = 0
            /\ messages[1].pol < -20) => result.current_sentiment < 4000
        /\ (/\ LexiconHits[messages[1].text].negative = 0
            /\ LexiconHits[messages[1].text].positive = 0
            /\ messages[1].pol >= -66
            /\ messages[1].pol <= 66) =>
               (result.current_sentiment >= 4000 /\ result.current_sentiment <= 6000)

\* the positive test message, carried under 'content', is scored 50
C20_TestMessageScoredNeutral ==
    /\ op = "analyze_evolution"
    /\ messages = <<Dict({"content", "timestamp"}, TestPositive, "2025-11-27 10:00", 0)>>
    /\ LexiconHits[TestPositive] = [positive |-> 2, negative |-> 0]
    /\ result.current_sentiment = 5000

\* one positive term at polarity 0 is scored 57, one negative term 43
C20_OneTermOutsideBand ==
    [t \in {TextExcelente, TextMalo} |->
        /\ op = "analyze_evolution"
        /\ messages = <<Str(t, 0)>>
        /\ result.current_sentiment = (IF t = TextExcelente THEN 5700 ELSE 4300)]

(***************************************************************************)
(* C21: the trend vocabulary (SpecTrajectory).                             *)
(***************************************************************************)
\* the enum of the save_analysis tool's trend field
save_trend_enum == {"RISING", "DECLINING", "STABLE"}

\* C21 as stated: a score sequence whose later half exceeds its earlier
\* half by more than 10 on average (30,40,50,60,70 among them) is labelled
\* RISING, and every trend of two or more scores is a value of the
\* save_analysis enum (RISING / DECLINING / STABLE).
C21_RisingIsLabelledRising ==
    (op = "_calculate_trend" /\ Len(scores) >= 2) =>
        /\ mean_diff_above(10) => result.trend = "RISING"
        /\ result.trend \in save_trend_enum

\* C21, what does hold: the label of a rising sequence is IMPROVING, and
\* RISING is never returned.
C21_RisingIsLabelledImproving ==
    op = "_calculate_trend" =>
        /\ (Len(scores) >= 2 /\ mean_diff_above(10)) => result.trend = "IMPROVING"
        /\ result.trend # "RISING"

\* the sequence of the test, labelled with a word outside the enum
C21_TestSequenceImproving ==
    /\ op = "_calculate_trend"
    /\ scores = TestScenarioRising
    /\ result.trend = "IMPROVING"
    /\ result.trend \notin save_trend_enum

(***************************************************************************)
(* SpecDecision: the predictor's decisions (action, urgency, timeline)     *)
(* from the analysis of a score sequence and the two indicator scores of   *)
(* the final text, both drawn by Init.                                     *)
(***************************************************************************)
DecisionScores == { 0, 2000, 4000, 5000, 6000 }

DecisionSequences == UNION { [1..n -> DecisionScores] : n \in 1..MaxScores }

\* min(100, 15 * hits) for 0 to 11 churn indicators, 0 to 10 resolution ones
ChurnScores == { Min(indicator_cap, indicator_points * k) : k \in 0..Len(churn_indicators) }
ResolutionScores == { 0, 45, 60 }

InitDecision ==
    /\ op = "init"
    /\ messages = <<>>
    /\ context \in {"customer", "general"}
    /\ result = NoValue
    /\ hashseed = 0
    /\ prev = NoValue
    /\ scores \in DecisionSequences
    /\ db = NoValue
    /\ request = NoValue
    /\ tables = NoValue
    /\ frames = NoValue
    /\ final_scores \in [churn_score : ChurnScores, resolution_score : ResolutionScores]

\* predict_action from the point where sentiment_data, churn_score and
\* resolution_score are known
Decide ==
    /\ op = "init"
    /\ op' = "predict_action"
    /\ result' = prediction_of_scores(analysis_of_timeline(timeline_of_scores(scores)),
                                      context, final_scores.churn_score,
                                      final_scores.resolution_score)
    /\ UNCHANGED <<messages, context, hashseed, prev, scores, db, request, tables, frames,
                   final_scores>>

NextDecision == Decide

SpecDecision == InitDecision /\ [][NextDecision]_vars

Decided == op = "predict_action"

urgency_by_first_match(sentiment, churn_score, action) ==
    IF sentiment < 2000 \/ churn_score > 80 \/ action = "LIKELY_CHURN" THEN "CRITICAL"
    ELSE IF sentiment < 4000 \/ churn_score > 60 \/ action = "ESCALATION_NEEDED" THEN "HIGH"
    ELSE IF sentiment < 5000 \/ churn_score > 40 THEN "MEDIUM"
    ELSE "LOW"

\* C22: the urgency of a prediction is the first match of: sentiment < 20
\* or churn_score > 80 or action LIKELY_CHURN, CRITICAL; sentiment < 40 or
\* churn_score > 60 or action ESCALATION_NEEDED, HIGH; sentiment < 50 or
\* churn_score > 40, MEDIUM; otherwise LOW.
C22_UrgencyByFirstMatch ==
    Decided =>
        result.urgency = urgency_by_first_match(result.sentiment_trajectory.current,
                                                final_scores.churn_score, result.action)

\* sentiment exactly 20 and churn_score 45 with a declining trend: no
\* CRITICAL test matches, the HIGH and the MEDIUM tests both match
C22_Witness ==
    /\ Decided
    /\ result.sentiment_trajectory.current = 2000
    /\ final_scores.churn_score = 45
    /\ result.action = "ESCALATION_NEEDED"
    /\ result.urgency = "HIGH"

\* the four urgencies are all assessed
C22_AllUrgencies ==
    [u \in {"CRITICAL", "HIGH", "MEDIUM", "LOW"} |-> Decided /\ result.urgency = u]

(***************************************************************************)
(* SpecConversation: a conversation that grows by one message at a time,   *)
(* detect_signals being called on the whole list after each message.       *)
(***************************************************************************)
MaxTurns == MaxRun - 2

TurnEntries ==
    { Str(TextAllFour, -100), Str(TextChurn, 0), Str(TextSlowCost, -20),
      Str(SpecScenarioNegative, -80), Str(TextPrice, 0), Str(TextNeutral, 0) }

InitConversation ==
    /\ op = "detect_signals"
    /\ messages \in { <<e>> : e \in TurnEntries }
    /\ context = "customer"
    /\ result = detect_signals(messages, context, 0)
    /\ hashseed = 0
    /\ prev = NoValue
    /\ scores = <<>>
    /\ db = NoValue
    /\ request = NoValue
    /\ tables = NoValue
    /\ frames = NoValue
    /\ final_scores = NoValue

\* one more message arrives and the conversation is analysed again
AppendMessage ==
    /\ Len(messages) < MaxTurns
    /\ \E e \in TurnEntries :
           /\ messages' = Append(messages, e)
           /\ result' = detect_signals(Append(messages, e), context, hashseed)
    /\ UNCHANGED <<op, context, hashseed, prev, scores, db, request, tables, frames,
                   final_scores>>

NextConversation == AppendMessage

SpecConversation == InitConversation /\ [][NextConversation]_vars

level_rank(risk_level) ==
    CASE risk_level = "LOW" -> 1
      [] risk_level = "MEDIUM" -> 2
      [] risk_level = "HIGH" -> 3
      [] risk_level = "CRITICAL" -> 4

\* C23: the detection after one more message has a total_risk_score and a
\* risk_level (LOW < MEDIUM < HIGH < CRITICAL) at least as high as the
\* detection before it.
C23_RiskNeverLowered ==
    [][ /\ result'.total_risk_score >= result.total_risk_score
        /\ level_rank(result'.risk_level) >= level_rank(result.risk_level) ]_vars

\* a severe first message followed by signal-free ones only
C23_Witness ==
    /\ Len(messages) = MaxTurns
    /\ messages[1] = Str(TextChurn, 0)
    /\ \A i \in 2..Len(messages) : messages[i] = Str(TextNeutral, 0)
    /\ result.total_risk_score = 60
    /\ result.risk_level = "HIGH"

\* C24: while no message triggers a comparison or a disengagement signal,
\* breaking_point is None, however many messages trigger frustration.
C24_FrustrationNeverBreaks ==
    (\A i \in 1..Len(messages) :
        /\ ~triggers(i).comparison_signal.found
        /\ ~triggers(i).disengagement_signal.found) => result.breaking_point = None

\* frustration in every message, with and without a price signal
C24_Witness ==
    /\ Len(messages) = MaxTurns
    /\ \A i \in 1..Len(messages) :
           /\ triggers(i).frustration_signal.found
           /\ ~triggers(i).comparison_signal.found
           /\ ~triggers(i).disengagement_signal.found
    /\ \E i \in 1..Len(messages) : triggers(i).price_signal.found
    /\ \E i \in 1..Len(messages) : ~triggers(i).price_signal.found
    /\ result.risk_level = "HIGH"
    /\ result.breaking_point = None

(***************************************************************************)
(* C25, C26: what the analysis tools leave in the database (SpecServer).   *)
(***************************************************************************)
\* the step is a call of tool `name` that stored its result
Stored(name) == Saved /\ op' = name

high_alert_added ==
    /\ Len(db'.risk_alerts) = Len(db.risk_alerts) + 1
    /\ SubSeq(db'.risk_alerts, 1, Len(db.risk_alerts)) = db.risk_alerts
    /\ db'.risk_alerts[Len(db'.risk_alerts)].customer_id = last_row(db').customer_id
    /\ db'.risk_alerts[Len(db'.risk_alerts)].severity = "HIGH"
    /\ db'.risk_alerts[Len(db'.risk_alerts)].resolved = 0

\* C25: every predict_next_action call that completes adds one unresolved
\* HIGH alert for its customer (the stored confidence is at least 50 on the
\* 0..100 scale); a detect_risk_signals call adds one whenever the result
\* has at least one signal group, and none when it has no signal.
C25_PredictionAlwaysAlerts ==
    [][ /\ Stored("predict_next_action") =>
               /\ last_row(db').confidence >= 50 * 100
               /\ high_alert_added
        /\ (Stored("detect_risk_signals") /\ Len(result'.signals) > 0) => high_alert_added
        /\ (Stored("detect_risk_signals") /\ Len(result'.signals) = 0) =>
               db'.risk_alerts = db.risk_alerts ]_vars

\* a prediction that says MONITOR_CLOSELY with the lowest confidence, and
\* the HIGH alert stored for it
C25_Witness ==
    /\ op = "predict_next_action"
    /\ "action" \in DOMAIN result
    /\ result.action = "MONITOR_CLOSELY"
    /\ result.confidence = 50 * 100
    /\ Len(db.conversations) = 1
    /\ Len(db.risk_alerts) = 1
    /\ db.risk_alerts[1].severity = "HIGH"
    /\ db.risk_alerts[1].resolved = 0
    /\ db.risk_alerts[1].customer_id = db.conversations[1].customer_id

\* a detection without a signal and one with a signal: one alert
C25_WitnessDetection ==
    /\ op = "detect_risk_signals"
    /\ Len(db.conversations) = 2
    /\ db.conversations[1].confidence = 0
    /\ db.conversations[2].confidence = 15 * 100
    /\ Len(db.risk_alerts) = 1
    /\ db.risk_alerts[1].severity = "HIGH"

\* C25, the confidence: no prediction has a confidence below 50
C25_ConfidenceAtLeast50 == Decided => result.confidence >= 50 * 100

\* C26 as stated: the conversation row stored for a predict_next_action
\* call has the action of the response as predicted_action and the current
\* sentiment of the response's trajectory as sentiment_score.
C26_RowCarriesPrediction ==
    [][ Stored("predict_next_action") =>
            /\ last_row(db').predicted_action = result'.action
            /\ last_row(db').sentiment_score = result'.sentiment_trajectory.current ]_vars

\* C26, what does hold: the row has predicted_action 'UNKNOWN', trend
\* 'UNKNOWN', risk_level 'UNKNOWN' and sentiment_score 0, whatever the
\* response says; only the confidence is the response's.
C26_RowCarriesDefaults ==
    [][ Stored("predict_next_action") =>
            /\ last_row(db').predicted_action = "UNKNOWN"
            /\ last_row(db').trend = "UNKNOWN"
            /\ last_row(db').risk_level = "UNKNOWN"
            /\ last_row(db').sentiment_score = 0
            /\ last_row(db').confidence = result'.confidence ]_vars

\* a prediction returned with an action and a current sentiment of 36,
\* stored as UNKNOWN with sentiment 0 and averaged into the profile as 0
C26_StoredAsUnknown ==
    /\ op = "predict_next_action"
    /\ "action" \in DOMAIN result
    /\ result.action = "MONITOR_CLOSELY"
    /\ result.sentiment_trajectory.current = 3600
    /\ Len(db.conversations) = 1
    /\ db.conversations[1].predicted_action = "UNKNOWN"
    /\ db.conversations[1].sentiment_score = 0
    /\ db.customer_profiles[1].lifetime_sentiment = fraction(0, 1)


IsError(response) == DOMAIN response = {"error"}

StoringTools ==
    { "analyze_sentiment_evolution", "detect_risk_signals", "predict_next_action",
      "save_analysis" }

\* C29: a tool call answered with an error leaves conversations,
\* customer_profiles and risk_alerts unchanged; every successful
\* analyze, detect, predict or save_analysis call adds exactly one
\* conversation record.
C29_ErrorsLeaveTablesAlone ==
    [][ /\ IsError(result') => db' = db
        /\ (op' \in StoringTools /\ ~IsError(result')) =>
               /\ Len(db'.conversations) = Len(db.conversations) + 1
               /\ SubSeq(db'.conversations, 1, Len(db.conversations)) = db.conversations
      ]_vars

\* a stored call followed by a call answered with an error: the tables
\* are those the first call left
C29_Witness ==
    /\ request.id = 2
    /\ IsError(result)
    /\ Len(db.conversations) = 1
    /\ Len(db.risk_alerts) = 1

\* each kind of error is answered
C29_WitnessHistory ==
    /\ op = "get_customer_history"
    /\ result = error_response(customer_id_error)
    /\ Len(db.conversations) = 1

C29_WitnessRaised ==
    /\ op = "predict_next_action"
    /\ IsError(result)
    /\ result.error # messages_error
    /\ Len(db.conversations) = 1

C29_WitnessThreshold ==
    /\ op = "get_high_risk_customers"
    /\ IsError(result)
    /\ Len(db.conversations) = 1

\* C28: the fields of a prediction are consistent with one another: action
\* LIKELY_CHURN implies urgency CRITICAL; action ESCALATION_NEEDED implies
\* urgency HIGH or CRITICAL; timeline 'IMMEDIATE (0-24 hours)' implies
\* action LIKELY_CHURN; urgency LOW implies timeline 'EXTENDED (1-3 months)'.
C28_FieldsConsistent ==
    Decided =>
        /\ result.action = "LIKELY_CHURN" => result.urgency = "CRITICAL"
        /\ result.action = "ESCALATION_NEEDED" => result.urgency \in {"HIGH", "CRITICAL"}
        /\ result.timeline = "IMMEDIATE (0-24 hours)" => result.action = "LIKELY_CHURN"
        /\ result.urgency = "LOW" => result.timeline = "EXTENDED (1-3 months)"

\* an immediate timeline: sentiment 0 with churn_score 90
C28_Witness ==
    /\ Decided
    /\ result.timeline = "IMMEDIATE (0-24 hours)"
    /\ result.action = "LIKELY_CHURN"
    /\ result.urgency = "CRITICAL"

\* an escalation whose urgency is CRITICAL: sentiment 0, declining
C28_WitnessEscalation ==
    /\ Decided
    /\ result.action = "ESCALATION_NEEDED"
    /\ result.urgency = "CRITICAL"

\* a LOW urgency with its extended timeline
C28_WitnessLow ==
    /\ Decided
    /\ result.urgency = "LOW"
    /\ result.timeline = "EXTENDED (1-3 months)"

(***************************************************************************)
(* SpecDatabase: one AnalysisDatabase, its methods called one after        *)
(* another by the server or by any other caller.                           *)
(***************************************************************************)
MaxOps == MaxCalls + 2

Customers == { "ACME", "B" }

\* the analyses handed to save_analysis: the save_analysis tool's with
\* confidence 0.9, its defaults (confidence 0.5), and confidence 0.8
StoredAnalyses ==
    { analysis_of_arguments([confidence |-> 90, sentiment_score |-> 3000,
                             trend |-> "DECLINING", predicted_action |-> "CHURN"]),
      analysis_of_arguments(NoArguments),
      analysis_of_arguments([confidence |-> 80, sentiment_score |-> 8000]) }

AlertIds == 1..2
Thresholds == { 50, 75 }

InitDatabase ==
    /\ op = "init"
    /\ messages = <<>>
    /\ context = "customer"
    /\ result = NoValue
    /\ hashseed = 0
    /\ prev = NoValue
    /\ scores = <<>>
    /\ db = _init_database
    /\ request = [id |-> 0]
    /\ tables = NoValue
    /\ frames = NoValue
    /\ final_scores = NoValue

\* one method call: its name and arguments, the database it leaves and the
\* value it returns
Called(name, arguments, after, returned) ==
    /\ request.id < MaxOps
    /\ op' = name
    /\ request' = [id |-> request.id + 1, name |-> name, arguments |-> arguments]
    /\ db' = after
    /\ result' = returned
    /\ UNCHANGED <<messages, context, hashseed, prev, scores, tables, frames, final_scores>>

\* analysis_id = cursor.lastrowid of the INSERT INTO conversations
SaveAnalysis ==
    \E customer_id \in Customers, analysis \in StoredAnalyses :
        Called("save_analysis", [customer_id |-> customer_id, analysis |-> analysis],
               save_analysis(db, customer_id, context, ToolMessages[1], analysis),
               Len(db.conversations) + 1)

ResolveAlert ==
    \E alert_id \in AlertIds :
        Called("resolve_alert", [alert_id |-> alert_id, notes |-> "done"],
               resolve_alert(db, alert_id, "done"), NoValue)

GetCustomerHistory ==
    \E customer_id \in Customers :
        Called("get_customer_history", [customer_id |-> customer_id], db,
               get_customer_history(db, customer_id))

GetHighRiskCustomers ==
    \E threshold \in Thresholds :
        Called("get_high_risk_customers", [threshold |-> threshold], db,
               get_high_risk_customers(db, threshold))

GetStatistics == Called("get_statistics", NoArguments, db, get_statistics(db))

NextDatabase ==
    \/ SaveAnalysis
    \/ ResolveAlert
    \/ GetCustomerHistory
    \/ GetHighRiskCustomers
    \/ GetStatistics

SpecDatabase == InitDatabase /\ [][NextDatabase]_vars

\* the customer's alert records that are not resolved
unresolved_of(customer_id) ==
    { k \in 1..Len(db.risk_alerts) :
        db.risk_alerts[k].customer_id = customer_id /\ db.risk_alerts[k].resolved = 0 }

HighRiskReturned == op = "get_high_risk_customers"

\* C27: every customer returned by get_high_risk_customers is reported with
\* active_alerts equal to the number of its unresolved alert records,
\* whatever the number of its conversation records, and a customer is
\* returned exactly when its profile's churn_risk is strictly greater than
\* the threshold.
C27_ActiveAlertsCountsAlerts ==
    HighRiskReturned =>
        /\ \A row \in result :
               row.active_alerts = Cardinality(unresolved_of(row.customer_id))
        /\ { row.customer_id : row \in result }
               = { db.customer_profiles[k].customer_id :
                     k \in { j \in 1..Len(db.customer_profiles) :
                               db.customer_profiles[j].churn_risk
                                   > request.arguments.threshold } }

\* what holds instead: active_alerts is the number of unresolved alerts
\* times the number of conversation records of the customer
C27_ActiveAlertsTimesConversations ==
    HighRiskReturned =>
        /\ \A row \in result :
               row.active_alerts =
                   Cardinality(unresolved_of(row.customer_id))
                       * Cardinality(rows_where(db.conversations, row.customer_id))
        /\ { row.customer_id : row \in result }
               = { db.customer_profiles[k].customer_id :
                     k \in { j \in 1..Len(db.customer_profiles) :
                               db.customer_profiles[j].churn_risk
                                   > request.arguments.threshold } }

\* two stored analyses with confidence 0.9 for one customer: two unresolved
\* alerts, reported as 4
C27_TwoAlertsReportedAsFour ==
    /\ HighRiskReturned
    /\ \E row \in result :
          /\ row.active_alerts = 4
          /\ Cardinality(unresolved_of(row.customer_id)) = 2

alert_ids(rows) == { a.id : a \in rows }

resolved_in(database) ==
    { k \in 1..Len(database.risk_alerts) : database.risk_alerts[k].resolved = 1 }

\* C30: once resolve_alert has been called for an alert, the alert is never
\* again among the active alerts of get_customer_history nor in the active
\* count of get_statistics, whatever save_analysis calls follow;
\* resolve_alert changes no other alert and no conversation or profile;
\* save_analysis only adds alerts and neither resolves nor removes one.
C30_ResolvedStaysResolved ==
    [][ /\ resolved_in(db) \subseteq resolved_in(db')
        /\ op' = "resolve_alert" =>
              /\ \A k \in 1..Len(db.risk_alerts) :
                     IF db.risk_alerts[k].id = request'.arguments.alert_id
                     THEN k \in resolved_in(db')
                     ELSE db'.risk_alerts[k] = db.risk_alerts[k]
              /\ Len(db'.risk_alerts) = Len(db.risk_alerts)
              /\ db'.conversations = db.conversations
              /\ db'.customer_profiles = db.customer_profiles
        /\ op' = "save_analysis" =>
              /\ Len(db'.risk_alerts) >= Len(db.risk_alerts)
              /\ SubSeq(db'.risk_alerts, 1, Len(db.risk_alerts)) = db.risk_alerts
              /\ \A k \in Len(db.risk_alerts) + 1 .. Len(db'.risk_alerts) :
                     db'.risk_alerts[k].resolved = 0
        /\ op' = "get_customer_history" =>
              alert_ids(result'.active_alerts) \cap resolved_in(db) = {}
        /\ op' = "get_statistics" =>
              result'.active_alerts = Len(db.risk_alerts) - Cardinality(resolved_in(db))
      ]_vars

\* alert 1 resolved, then an analysis with an alert stored for the same
\* customer, then the history read: alert 2 is active, alert 1 is not
C30_Witness ==
    /\ op = "get_customer_history"
    /\ request.id = 4
    /\ Len(db.risk_alerts) = 2
    /\ db.risk_alerts[1].customer_id = db.risk_alerts[2].customer_id
    /\ request.arguments.customer_id = db.risk_alerts[1].customer_id
    /\ resolved_in(db) = {1}
    /\ db.risk_alerts[1].notes = "done"
    /\ alert_ids(result.active_alerts) = {2}

\* the statistics after a resolution: one of two alerts counted
C30_WitnessStatistics ==
    /\ op = "get_statistics"
    /\ Len(db.risk_alerts) = 2
    /\ resolved_in(db) = {1}
    /\ result.active_alerts = 1
====
